---- MODULE Spec2Model ----
(***************************************************************************)
(* Model of the graph reduction and rendering engine of UFCT_frontend:     *)
(*   - src/ufct/src/utils/graphUtils.js   (sanitizer, degrees, reduction)  *)
(*   - src/unnamed/part_003               (D3NetworkRenderer and           *)
(*                                         WebGLNetworkRenderer)           *)
(* Ids are JavaScript strings, modelled as sequences of one-character      *)
(* strings; arrays are sequences; a JavaScript Set is the sequence of its  *)
(* members in insertion order.                                             *)
(***************************************************************************)
EXTENDS Integers, Sequences, FiniteSets, TLC

VARIABLES
    pc,          \* position of the graph-utility caller
    inNodes,     \* nodes argument
    inLinks,     \* links argument
    outNodes,    \* return value of cleanNodes
    outLinks,    \* return value of cleanLinks
    degrees,     \* return value of calculateNodeDegrees
    optArgs,     \* threshold and options passed to optimizeGraphForPerformance
    randomHits,  \* ids whose Math.random() draw fell below sampleRate
    locals,      \* local variables of the optimizeGraphForPerformance call
    result,      \* return value of optimizeGraphForPerformance
    \* D3NetworkRenderer
    d3Options,          \* this.options: enableBatching, batchSize
    d3Layers,           \* this.g and its two layers: "none", "attached", "removed"
    d3Nodes,            \* this.nodes
    d3Links,            \* this.links
    d3Simulation,       \* this.simulation: "none", "running", "stopped"
    d3Circles,          \* circle elements of the nodes layer, by data key
    d3Lines,            \* line elements of the links layer, by data key
    d3Raf,              \* callbacks passed to requestAnimationFrame, not yet run
    d3SelectedNode,     \* this.selectedNode (its id; NoNode for null)
    d3HighlightedNodes, \* this.highlightedNodes
    d3HighlightedLinks, \* this.highlightedLinks
    d3Pointer,          \* the circle the mouse pointer is over (NoNode: none)
    d3LastCall,         \* the public renderer method called last
    d3Error,            \* an exception has left a renderer method or callback
    \* WebGLNetworkRenderer
    glGraph,            \* this.graph: "null" or "instance"
    glSetup,            \* set-up of the last initialize(): "none", "complete", "failed"
    glHandlers,         \* onNodeClick and onNodeHover are registered on this.graph
    glCanvas,           \* this.canvas and this.ctx: "none", "noctx", "ctx"
    glNodes,            \* this.nodes
    glLinks,            \* this.links
    glScene,            \* ids of the nodes of the graphData held by this.graph
    glSelectedNode,     \* this.selectedNode (its id; NoNode for null)
    glHoveredNode,      \* this.hoveredNode (its id; NoNode for null)
    glIsPaused,         \* this.isPaused
    glDrawnBy,          \* backend the last render() drew through: "none", "gpu", "canvas"
    glErrorReported,    \* the last call wrote to console.error
    glLastCall,         \* the public renderer method called last
    glListeners,        \* this.eventListeners: the event names that hold a callback
    glLastEvent,        \* the last pointer event the instance reported to its handler
    glInvoked,          \* the listener calls made by the handler of that event
    \* the worker of dataMapping.js
    wkPc,               \* "idle", "delivered" (a message event is queued), "handled"
    wkMsg,              \* event.data of the message
    wkOutcome,          \* what the task did: "none", "completed", "threw", "unknown"
    wkPosted,           \* arguments of the self.postMessage calls of the handler
    wkEscaped,          \* an exception has left self.onmessage
    \* a call of a pure function
    callPc,             \* "idle", "input", "returned"
    callArgs,           \* arguments of the call
    callResult,         \* return value of the call, or the exception it raised
    \* the CitationNetwork view
    vwFilters,          \* filters.value
    vwNodes,            \* citationNodes.value
    vwLinks,            \* citationLinks.value
    vwStats,            \* citationStats.value
    vwLoading,          \* isLoading.value
    vwCache,            \* the localStorage items of the cache
    vwPending,          \* the fetchCitationNetwork requests that have not been answered
    vwIssued,           \* number of requests sent so far
    vwOverlapped,       \* loadCitationNetwork has been called while a request was pending
    vwConsole           \* source of the last console.error: "none", "load", "cache"

gvars == <<pc, inNodes, inLinks, outNodes, outLinks, degrees, optArgs, randomHits, locals, result>>

dvars == <<d3Options, d3Layers, d3Nodes, d3Links, d3Simulation, d3Circles, d3Lines,
           d3Raf, d3SelectedNode, d3HighlightedNodes, d3HighlightedLinks, d3Pointer,
           d3LastCall, d3Error>>

wvars == <<glGraph, glSetup, glHandlers, glCanvas, glNodes, glLinks, glScene,
           glSelectedNode, glHoveredNode, glIsPaused, glDrawnBy, glErrorReported,
           glLastCall, glListeners, glLastEvent, glInvoked>>

kvars == <<wkPc, wkMsg, wkOutcome, wkPosted, wkEscaped>>

cvars == <<callPc, callArgs, callResult>>

vvars == <<vwFilters, vwNodes, vwLinks, vwStats, vwLoading, vwCache, vwPending, vwIssued,
           vwOverlapped, vwConsole>>

vars == <<gvars, dvars, wvars, kvars, cvars, vvars>>

-----------------------------------------------------------------------------
(* Bounds of the model *)

MaxRawNodes == 2      \* longest node array given to the sanitizer
MaxRawLinks == 3      \* longest link array given to the sanitizer
MaxGraphNodes == 3    \* most nodes of a graph given to the reduction
MaxGraphLinks == 3    \* most links of a graph given to the reduction
MaxThreshold == 2     \* largest threshold argument of the reduction
MaxSmallNodes == 3    \* most nodes of the small graphs given to a renderer
MaxQueuedFrames == 2  \* render() is called with at most this many callbacks queued

-----------------------------------------------------------------------------
(* JavaScript strings *)

Chars == {"-", "a", "b", "c", "d", "e", "f", "g"}

\* UTF-16 code unit order of the characters used ('-' sorts before letters)
CharCode == [ch \in Chars |->
    CASE ch = "-" -> 45 [] ch = "a" -> 97 [] ch = "b" -> 98 [] ch = "c" -> 99
      [] ch = "d" -> 100 [] ch = "e" -> 101 [] ch = "f" -> 102 [] ch = "g" -> 103]

Min2(x, y) == IF x <= y THEN x ELSE y
Max2(x, y) == IF x >= y THEN x ELSE y

\* s < t in the default (code unit, lexicographic) order of Array.prototype.sort
StrLess(s, t) ==
    LET m == Min2(Len(s), Len(t))
        diff == {i \in 1..m : s[i] # t[i]}
    IN  IF diff = {}
        THEN Len(s) < Len(t)
        ELSE LET i == CHOOSE j \in diff : \A k \in diff : j <= k
             IN  CharCode[s[i]] < CharCode[t[i]]

\* [x, y].sort()
SortPair(x, y) == IF StrLess(y, x) THEN <<y, x>> ELSE <<x, y>>

\* arr.join('-') of a two-element array
JoinDash(p) == p[1] \o <<"-">> \o p[2]

Range(s) == {s[i] : i \in 1..Len(s)}

Link(s, t) == [source |-> s, target |-> t]

-----------------------------------------------------------------------------
(* graphUtils.js: sanitizer *)

RECURSIVE cleanNodesLoop(_, _, _)
cleanNodesLoop(nodes, seen, acc) ==
    IF nodes = <<>> THEN acc
    ELSE LET node == Head(nodes)
         IN  IF node \in seen
             THEN cleanNodesLoop(Tail(nodes), seen, acc)
             ELSE cleanNodesLoop(Tail(nodes), seen \cup {node}, Append(acc, node))

\* a node is modelled by its id, the only field the utilities read
cleanNodes(nodes) == cleanNodesLoop(nodes, {}, <<>>)

LinkKeyUnsorted(link) == JoinDash(<<link.source, link.target>>)

\* const id = [link.source, link.target].sort().join('-')
LinkKey(link) == JoinDash(SortPair(link.source, link.target))

RECURSIVE cleanLinksLoop(_, _, _)
cleanLinksLoop(links, seen, acc) ==
    IF links = <<>> THEN acc
    ELSE LET link == Head(links)
         IN  IF link.source = link.target
             THEN cleanLinksLoop(Tail(links), seen, acc)
             ELSE IF LinkKey(link) \in seen
                  THEN cleanLinksLoop(Tail(links), seen, acc)
                  ELSE cleanLinksLoop(Tail(links), seen \cup {LinkKey(link)},
                                      Append(acc, link))

cleanLinks(links) == cleanLinksLoop(links, {}, <<>>)

-----------------------------------------------------------------------------
(* graphUtils.js: degrees *)

\* The degrees object is the sequence of its entries [id, degree] in key
\* order (insertion order: the ids used are not integer-like).
HasKey(entries, id) == \E i \in 1..Len(entries) : entries[i].id = id

DegreeOf(entries, id) ==
    LET i == CHOOSE j \in 1..Len(entries) : entries[j].id = id
    IN  entries[i].degree

\* if (hasOwnProperty.call(degrees, id)) degrees[id]++
Increment(entries, id) ==
    [i \in 1..Len(entries) |->
        IF entries[i].id = id
        THEN [id |-> id, degree |-> entries[i].degree + 1]
        ELSE entries[i]]

RECURSIVE countLinks(_, _)
countLinks(links, entries) ==
    IF links = <<>> THEN entries
    ELSE countLinks(Tail(links),
                    Increment(Increment(entries, Head(links).source),
                              Head(links).target))

calculateNodeDegrees(nodes, links) ==
    LET keys == cleanNodes(nodes)   \* degrees[node.id] = 0 creates each key once
        zero == [i \in 1..Len(keys) |-> [id |-> keys[i], degree |-> 0]]
    IN  countLinks(links, zero)

RECURSIVE SumDegrees(_)
SumDegrees(entries) ==
    IF entries = <<>> THEN 0
    ELSE Head(entries).degree + SumDegrees(Tail(entries))

-----------------------------------------------------------------------------
(* graphUtils.js: reduction *)

\* Math.max(50, ...) in topNodeCount
MinTopNodes == 50
\* the merge scan looks at sortedNodes[0 .. 9]
MergeScanWidth == 10

\* Math.ceil(x / y) for x >= 0, y > 0
CeilDiv(x, y) == (x + y - 1) \div y

\* Math.max(...values) of a non-empty array of degrees
MaxDegree(entries) ==
    CHOOSE d \in {entries[i].degree : i \in 1..Len(entries)} :
        \A i \in 1..Len(entries) : entries[i].degree <= d

CountAtLeast(entries, t) == Cardinality({i \in 1..Len(entries) : entries[i].degree >= t})

\* entries.sort((a, b) => b[1] - a[1]): stable, descending degree
RECURSIVE SortDescLoop(_, _)
SortDescLoop(entries, acc) ==
    IF entries = <<>> THEN acc
    ELSE LET e == Head(entries)
             k == Cardinality({i \in 1..Len(acc) : acc[i].degree >= e.degree})
         IN  IF k = Len(acc)
             THEN SortDescLoop(Tail(entries), Append(acc, e))
             ELSE SortDescLoop(Tail(entries),
                     SubSeq(acc, 1, k) \o <<e>> \o SubSeq(acc, k + 1, Len(acc)))

SortByDegreeDesc(entries) == SortDescLoop(entries, <<>>)

\* [...nodes].sort((a, b) => a.degree - b.degree): stable, ascending degree
RECURSIVE SortAscLoop(_, _)
SortAscLoop(entries, acc) ==
    IF entries = <<>> THEN acc
    ELSE LET e == Head(entries)
             k == Cardinality({i \in 1..Len(acc) : acc[i].degree <= e.degree})
         IN  IF k = Len(acc)
             THEN SortAscLoop(Tail(entries), Append(acc, e))
             ELSE SortAscLoop(Tail(entries),
                     SubSeq(acc, 1, k) \o <<e>> \o SubSeq(acc, k + 1, Len(acc)))

SortByDegreeAsc(entries) == SortAscLoop(entries, <<>>)

\* count >= targetNodes * 0.6 && count <= targetNodes * 1.2
InBand(count, targetNodes) ==
    10 * count >= 6 * targetNodes /\ 10 * count <= 12 * targetNodes

\* a search that returns its first midpoint
ThresholdFirstGuess(entries, targetNodes, low, high, bestThreshold) ==
    IF low > high THEN bestThreshold ELSE (low + high) \div 2

\* the while loop of calculateDynamicThreshold
RECURSIVE thresholdLoop(_, _, _, _, _)
thresholdLoop(entries, targetNodes, low, high, bestThreshold) ==
    IF low > high THEN bestThreshold
    ELSE LET mid == (low + high) \div 2
             count == CountAtLeast(entries, mid)
         IN  IF InBand(count, targetNodes) THEN mid
             ELSE IF 10 * count > 12 * targetNodes
                  THEN thresholdLoop(entries, targetNodes, mid + 1, high, bestThreshold)
                  ELSE thresholdLoop(entries, targetNodes, low, mid - 1, mid)

calculateDynamicThreshold(entries, targetNodes, minThreshold) ==
    IF Len(entries) <= targetNodes THEN minThreshold
    ELSE thresholdLoop(entries, targetNodes, minThreshold, MaxDegree(entries), minThreshold)

\* new Set([...a, ...b]) in insertion order
RECURSIVE AppendNew(_, _)
AppendNew(a, b) ==
    IF b = <<>> THEN a
    ELSE IF Head(b) \in Range(a) THEN AppendNew(a, Tail(b))
         ELSE AppendNew(Append(a, Head(b)), Tail(b))

IdsOf(entries) == [i \in 1..Len(entries) |-> entries[i].id]

\* adjacency.get(id): neighbours of id among the nodes given to the merge
Adjacency(mnodes, links, id) ==
    LET ids == Range(IdsOf(mnodes))
    IN  {links[i].target : i \in {j \in 1..Len(links) :
                links[j].source = id /\ links[j].source \in ids /\ links[j].target \in ids}}
        \cup
        {links[i].source : i \in {j \in 1..Len(links) :
                links[j].target = id /\ links[j].source \in ids /\ links[j].target \in ids}}

\* a scan without the guard on the neighbour's degree
ScanPairsAnyDegree(mnodes, links, sortedNodes, kept) ==
    {p \in (1..Min2(Len(sortedNodes), MergeScanWidth)) \X kept :
        /\ sortedNodes[p[1]].id \in kept
        /\ p[2] \in Adjacency(mnodes, links, sortedNodes[p[1]].id)}

\* one pass of the for loops: the pairs (i, neighbour) that pass both guards
ScanPairs(mnodes, links, sortedNodes, kept) ==
    {p \in (1..Min2(Len(sortedNodes), MergeScanWidth)) \X kept :
        /\ sortedNodes[p[1]].id \in kept
        /\ p[2] \in Adjacency(mnodes, links, sortedNodes[p[1]].id)
        /\ DegreeOf(mnodes, p[2]) <= sortedNodes[p[1]].degree + 2}

CommonNeighbors(mnodes, links, a, b) ==
    Cardinality(Adjacency(mnodes, links, a) \cap Adjacency(mnodes, links, b))

\* bestPair after the scan: the first nodeA (in scan order) that reaches the
\* largest similarity; <<>> stands for null
BestPair(mnodes, links, sortedNodes, kept) ==
    LET pairs == ScanPairs(mnodes, links, sortedNodes, kept)
        sim(p) == CommonNeighbors(mnodes, links, sortedNodes[p[1]].id, p[2])
    IN  IF pairs = {} THEN <<>>
        ELSE LET best == CHOOSE p \in pairs :
                           /\ \A q \in pairs : sim(q) <= sim(p)
                           /\ \A q \in pairs : sim(q) = sim(p) => p[1] <= q[1]
             IN  sortedNodes[best[1]].id

\* the while loop of mergeNodeCommunities; kept is the Set result
RECURSIVE mergeLoop(_, _, _, _, _)
mergeLoop(mnodes, links, targetCount, sortedNodes, kept) ==
    IF ~(Cardinality(kept) > targetCount /\ Len(sortedNodes) > 0) THEN kept
    ELSE LET bestPair == BestPair(mnodes, links, sortedNodes, kept)
         IN  IF bestPair # <<>>
             THEN mergeLoop(mnodes, links, targetCount, Tail(sortedNodes),
                            kept \ {bestPair})
             ELSE kept

mergeNodeCommunities(mnodes, links, targetCount) ==
    IF Len(mnodes) <= targetCount THEN mnodes
    ELSE LET kept == mergeLoop(mnodes, links, targetCount,
                               SortByDegreeAsc(mnodes), Range(IdsOf(mnodes)))
         IN  SelectSeq(mnodes, LAMBDA n : n.id \in kept)

\* randomSampleNodes; hits are the ids whose Math.random() < sampleRate
randomSampleNodes(nodeIds, targetCount, hits) ==
    IF Len(nodeIds) <= targetCount THEN nodeIds
    ELSE LET sampled == SelectSeq(nodeIds, LAMBDA id : id \in hits)
         IN  IF Len(sampled) < targetCount
             THEN LET remaining == SelectSeq(nodeIds, LAMBDA id : id \notin hits)
                      needed == targetCount - Len(sampled)
                  IN  sampled \o SubSeq(remaining, 1, Min2(needed, Len(remaining)))
             ELSE sampled

WithinBudgetStrict(count, maxNodes) == count < maxNodes

\* nodes.length <= maxNodes
WithinBudget(count, maxNodes) == count <= maxNodes

\* Math.max(Math.ceil(nodes.length * preserveTopPercent),
\*          Math.max(50, Math.ceil(maxNodes * 0.2)))
\* preserveTopPercent is given in hundredths
TopNodeCount(count, o) ==
    Max2(CeilDiv(count * o.preserveTopPercent, 100),
         Max2(MinTopNodes, CeilDiv(2 * o.maxNodes, 10)))

\* the local variables of optimizeGraphForPerformance before the sampling
\* stage (lines 130-168); each is named as in the source
ReductionLocals(nodes, links, o) ==
    LET entries == calculateNodeDegrees(nodes, links)
        sortedByDegree == SortByDegreeDesc(entries)
        dynamicThreshold ==
            calculateDynamicThreshold(sortedByDegree, o.maxNodes, o.threshold)
        importantNodeIds ==
            IdsOf(SelectSeq(sortedByDegree, LAMBDA e : e.degree >= dynamicThreshold))
        topNodeCount == TopNodeCount(Len(nodes), o)
        topDegreeNodeIds ==
            IdsOf(SubSeq(sortedByDegree, 1, Min2(topNodeCount, Len(sortedByDegree))))
        unionIds == AppendNew(importantNodeIds, topDegreeNodeIds)
        mergeRuns == o.enableCommunityMerge /\ 10 * Len(unionIds) > 8 * o.maxNodes
        mergedIds ==
            IF mergeRuns
            THEN IdsOf(mergeNodeCommunities(
                     [i \in 1..Len(unionIds) |->
                         [id |-> unionIds[i], degree |-> DegreeOf(entries, unionIds[i])]],
                     links, CeilDiv(7 * o.maxNodes, 10)))
            ELSE unionIds
    IN  [degrees |-> entries,
         sortedByDegree |-> sortedByDegree,
         dynamicThreshold |-> dynamicThreshold,
         topNodeCount |-> topNodeCount,
         topDegreeNodeIds |-> topDegreeNodeIds,
         unionIds |-> unionIds,
         mergeRuns |-> mergeRuns,
         mergedIds |-> mergedIds,
         samplingRuns |-> Len(mergedIds) > o.maxNodes]

\* the sampling stage without its size test: it samples a keep-set that is
\* within the budget down to one id less
KeepSampledWithinBudget(loc, o, hits) ==
    randomSampleNodes(loc.mergedIds, Min2(o.maxNodes, Len(loc.mergedIds) - 1), hits)

\* lines 171-173: filteredNodeIds after the sampling stage
KeepFinal(loc, o, hits) ==
    IF loc.samplingRuns
    THEN randomSampleNodes(loc.mergedIds, o.maxNodes, hits)
    ELSE loc.mergedIds

\* compressionRate > 0.8 ? 'heavy' : compressionRate > 0.5 ? 'moderate' : 'light'
\* with compressionRate = 1 - kept / total
LevelOf(total, kept) ==
    IF 10 * (total - kept) > 8 * total THEN "heavy"
    ELSE IF 10 * (total - kept) > 5 * total THEN "moderate"
    ELSE "light"

\* Math.round(compressionRate * 100)
RatePercent(total, kept) == (200 * (total - kept) + total) \div (2 * total)

KeptInSetOrder(nodes, filteredNodeIds) == filteredNodeIds

\* nodes.filter(node => filteredNodeIds.has(node.id))
FilterNodes(nodes, filteredNodeIds) ==
    SelectSeq(nodes, LAMBDA n : n \in Range(filteredNodeIds))

\* lines 175-191, given the locals computed so far
ReduceWith(nodes, links, o, loc, hits) ==
    LET keep == Range(KeepFinal(loc, o, hits))
        optimizedNodes == FilterNodes(nodes, KeepFinal(loc, o, hits))
        optimizedLinks ==
            SelectSeq(links, LAMBDA l : l.source \in keep /\ l.target \in keep)
    IN  [nodes |-> optimizedNodes, links |-> optimizedLinks,
         filteredCount |-> Len(nodes) - Len(optimizedNodes),
         compressionRate |-> RatePercent(Len(nodes), Len(optimizedNodes)),
         optimizationLevel |-> LevelOf(Len(nodes), Len(optimizedNodes))]

optimizeGraphForPerformance(nodes, links, o, loc, hits) ==
    IF WithinBudget(Len(nodes), o.maxNodes)
    THEN [nodes |-> nodes, links |-> links, filteredCount |-> 0,
          optimizationLevel |-> "none"]
    ELSE ReduceWith(nodes, links, o, loc, hits)

-----------------------------------------------------------------------------
(* Inputs of the graph utilities *)

SeqsUpTo(S, n) == UNION {[1..k -> S] : k \in 0..n}

\* ids given to the sanitizer; two of them contain the separator '-'
IdA == <<"a">>
IdC == <<"c">>
IdAB == <<"a", "-", "b">>
IdBC == <<"b", "-", "c">>
SanitizeNodeIds == {IdA, IdC, IdAB}

RawLinkPool ==
    {Link(s, t) : s \in {IdA, IdC}, t \in {IdA, IdC}}
    \cup {Link(IdAB, IdC), Link(IdC, IdAB), Link(IdA, IdBC), Link(IdBC, IdA)}

RawNodeLists == SeqsUpTo(SanitizeNodeIds, MaxRawNodes)
RawLinkLists == SeqsUpTo(RawLinkPool, MaxRawLinks)

\* ids of the graphs given to the reduction: the k-th node is NodeOrder[k];
\* Dangling is an id that no node carries
NodeOrder == <<<<"a">>, <<"b">>, <<"c">>, <<"d">>, <<"e">>, <<"f">>>>
Dangling == <<"g">>

GraphNodeLists == {SubSeq(NodeOrder, 1, k) : k \in 0..Min2(MaxGraphNodes, Len(NodeOrder))}

\* every link between two of the nodes, then from each node to Dangling
PoolOf(nodes) ==
    LET n == Len(nodes)
        inner == {<<i, j>> \in (1..n) \X (1..n) : i < j}
        rank(p) == Cardinality({q \in inner :
                      q[1] < p[1] \/ (q[1] = p[1] /\ q[2] <= p[2])})
    IN  [k \in 1..(Cardinality(inner) + n) |->
            IF k <= Cardinality(inner)
            THEN LET p == CHOOSE q \in inner : rank(q) = k
                 IN  Link(nodes[p[1]], nodes[p[2]])
            ELSE Link(nodes[k - Cardinality(inner)], Dangling)]

\* the members of pool at the positions in picks, in pool order
RECURSIVE PickFrom(_, _, _)
PickFrom(pool, picks, k) ==
    IF k > Len(pool) THEN <<>>
    ELSE IF k \in picks
         THEN <<pool[k]>> \o PickFrom(pool, picks, k + 1)
         ELSE PickFrom(pool, picks, k + 1)

GraphLinkLists(nodes) ==
    LET pool == PoolOf(nodes)
    IN  {PickFrom(pool, picks, 1) :
            picks \in {ps \in SUBSET (1..Len(pool)) : Cardinality(ps) <= MaxGraphLinks}}

Options ==
    [maxNodes : 1..MaxGraphNodes, threshold : 1..MaxThreshold,
     preserveTopPercent : {10, 15}, enableCommunityMerge : BOOLEAN]

NoResult == [optimizationLevel |-> "pending"]
NoLocals == [samplingRuns |-> FALSE, mergeRuns |-> FALSE]
NoArgs == [maxNodes |-> 0, threshold |-> 0, preserveTopPercent |-> 0,
           enableCommunityMerge |-> FALSE]

-----------------------------------------------------------------------------
(* Callers of the graph utilities *)

\* no renderer has been constructed
WebGLIdle ==
    /\ glGraph = "null" /\ glSetup = "none" /\ glHandlers = FALSE
    /\ glCanvas = "none"
    /\ glNodes = <<>> /\ glLinks = <<>> /\ glScene = {}
    /\ glSelectedNode = 0 /\ glHoveredNode = 0
    /\ glIsPaused = FALSE
    /\ glDrawnBy = "none"
    /\ glErrorReported = FALSE
    /\ glLastCall = "none"
    /\ glListeners = {} /\ glLastEvent = [kind |-> "none"] /\ glInvoked = {}

D3Idle ==
    /\ d3Options = [enableBatching |-> TRUE, batchSize |-> 0]
    /\ d3Layers = "none"
    /\ d3Nodes = <<>> /\ d3Links = <<>>
    /\ d3Simulation = "none"
    /\ d3Circles = <<>> /\ d3Lines = <<>>
    /\ d3Raf = <<>>
    /\ d3SelectedNode = 0
    /\ d3HighlightedNodes = {} /\ d3HighlightedLinks = {}
    /\ d3Pointer = 0
    /\ d3LastCall = "none"
    /\ d3Error = FALSE

RendererIdle == D3Idle /\ WebGLIdle

\* no message has been delivered to the worker
WorkerIdle ==
    /\ wkPc = "idle" /\ wkMsg = [data |-> "none"] /\ wkOutcome = "none"
    /\ wkPosted = <<>> /\ wkEscaped = FALSE

\* no pure function is being called
CallIdle == callPc = "idle" /\ callArgs = <<>> /\ callResult = <<>>

ViewIdle ==
    /\ vwFilters = <<>> /\ vwNodes = <<>> /\ vwLinks = <<>> /\ vwStats = "null"
    /\ vwLoading = FALSE /\ vwCache = <<>> /\ vwPending = {} /\ vwIssued = 0
    /\ vwOverlapped = FALSE /\ vwConsole = "none"

InitSanitize ==
    /\ RendererIdle /\ WorkerIdle /\ ViewIdle /\ CallIdle
    /\ pc = "input"
    /\ inNodes \in RawNodeLists
    /\ inLinks \in RawLinkLists
    /\ outNodes = <<>> /\ outLinks = <<>> /\ degrees = <<>>
    /\ optArgs = NoArgs /\ randomHits = {} /\ locals = NoLocals /\ result = NoResult

\* nodes: cleanNodes(payload.nodes), links: cleanLinks(payload.links)
CleanData ==
    /\ pc = "input"
    /\ outNodes' = cleanNodes(inNodes)
    /\ outLinks' = cleanLinks(inLinks)
    /\ pc' = "cleaned"
    /\ UNCHANGED <<inNodes, inLinks, degrees, optArgs, randomHits, locals, result>>
    /\ UNCHANGED <<dvars, wvars, kvars, cvars, vvars>>

\* calculateNodeDegrees on the sanitized arrays
CalcDegrees ==
    /\ pc = "cleaned"
    /\ degrees' = calculateNodeDegrees(outNodes, outLinks)
    /\ pc' = "degrees"
    /\ UNCHANGED <<inNodes, inLinks, outNodes, outLinks, optArgs, randomHits, locals, result>>
    /\ UNCHANGED <<dvars, wvars, kvars, cvars, vvars>>

NextSanitize == CleanData \/ CalcDegrees

SpecSanitize == InitSanitize /\ [][NextSanitize]_vars

InitOptimize ==
    /\ RendererIdle /\ WorkerIdle /\ ViewIdle /\ CallIdle
    /\ pc = "input"
    /\ inNodes \in GraphNodeLists
    /\ inLinks \in GraphLinkLists(inNodes)
    /\ cleanNodes(inNodes) = inNodes
    /\ outNodes = <<>> /\ outLinks = <<>> /\ degrees = <<>>
    /\ optArgs = NoArgs /\ randomHits = {} /\ locals = NoLocals /\ result = NoResult

\* one call of optimizeGraphForPerformance; hits is the outcome of the
\* Math.random() draws of the sampling stage: any subset of the candidates
\* (none when the stage does not run, and none when sampleRate is 0)
Optimize ==
    /\ pc = "input"
    /\ \E o \in Options :
         LET reduces == ~WithinBudget(Len(inNodes), o.maxNodes)
             loc == IF reduces THEN ReductionLocals(inNodes, inLinks, o) ELSE NoLocals
             draws == IF reduces /\ loc.samplingRuns /\ o.maxNodes > 0
                      THEN SUBSET Range(loc.mergedIds)
                      ELSE {{}}
         IN  \E hits \in draws :
                /\ optArgs' = o
                /\ randomHits' = hits
                /\ locals' = loc
                /\ result' = optimizeGraphForPerformance(inNodes, inLinks, o, loc, hits)
    /\ pc' = "optimized"
    /\ UNCHANGED <<inNodes, inLinks, outNodes, outLinks, degrees>>
    /\ UNCHANGED <<dvars, wvars, kvars, cvars, vvars>>

NextOptimize == Optimize

SpecOptimize == InitOptimize /\ [][NextOptimize]_vars


-----------------------------------------------------------------------------
(* part_003: D3NetworkRenderer *)

\* ids of rendered nodes are 1, 2, ...; NoNode stands for null
NoNode == 0

\* options.batchSize (line 21), the batching test nodeCount > 300 (line 128)
\* and the large-graph test nodes.length > 500 (line 261)
DefaultBatchSize == 500
BatchThreshold == 300
LargeGraphThreshold == 500

\* lengths and opacities are kept in tenths: 0.5 is 5, 2 is 20
DefaultNodeRadius10 == 60

\* graphs given to render(): nodes 1..n, links i -> i+1 for i in 1..m
GraphOf(n, m) ==
    [nodes |-> [i \in 1..n |-> i], links |-> [i \in 1..m |-> Link(i, i + 1)]]

BigCounts == {BatchThreshold + 1, DefaultBatchSize + 1}

\* a small graph has fewer links than nodes
SmallShapes == {p \in (0..MaxSmallNodes) \X (0..MaxSmallNodes) : p[2] < Max2(p[1], 1)}

RenderGraphs ==
    {GraphOf(p[1], p[2]) : p \in SmallShapes} \cup {GraphOf(n, n - 1) : n \in BigCounts}

\* circles the pointer events of the model are aimed at
ProbeIds == (1..MaxSmallNodes) \cup BigCounts

\* d => `${source.id}-${target.id}`: the key of a link; the pair stands for the
\* string, which determines the pair when no id contains '-'
D3LinkKey(link) == <<link.source, link.target>>

\* items.slice(i, i + size) for i = 0, size, 2 * size, ...
Chunks(items, size) ==
    [k \in 1..CeilDiv(Len(items), size) |->
        SubSeq(items, (k - 1) * size + 1, Min2(k * size, Len(items)))]

\* batchedUpdateLinks: one requestAnimationFrame callback per chunk
batchedUpdateLinks(links, size) ==
    [k \in 1..Len(Chunks(links, size)) |-> [kind |-> "links", chunk |-> Chunks(links, size)[k]]]

\* batchedUpdateNodes: one requestAnimationFrame callback per chunk
batchedUpdateNodes(nodes, size) ==
    [k \in 1..Len(Chunks(nodes, size)) |-> [kind |-> "nodes", chunk |-> Chunks(nodes, size)[k]]]

\* updateLinks: data join by key; exit removed, enter appended with opacity
\* 0.4, stroke-width set on enter and update (styles = {}: width 1)
updateLinks(lines, links) ==
    LET keys == {D3LinkKey(links[i]) : i \in 1..Len(links)}
    IN  [k \in keys |->
            IF k \in DOMAIN lines
            THEN [lines[k] EXCEPT !.strokeWidth10 = 10]
            ELSE [strokeWidth10 |-> 10, opacity10 |-> 4]]

\* Math.max(r * 0.7, 2) for large graphs, r otherwise
NodeRadius10(isLargeGraph) ==
    IF isLargeGraph THEN Max2((7 * DefaultNodeRadius10) \div 10, 20)
    ELSE DefaultNodeRadius10

\* updateNodes: data join by id; exit removed, enter appended with the click
\* handler (and the hover and drag handlers unless isLargeGraph); r and
\* stroke-width set on enter and update
updateNodes(circles, nodes) ==
    LET isLargeGraph == Len(nodes) > LargeGraphThreshold
        keys == Range(nodes)
    IN  [id \in keys |->
            IF id \in DOMAIN circles
            THEN [circles[id] EXCEPT !.r10 = NodeRadius10(isLargeGraph),
                                     !.strokeWidth10 = IF isLargeGraph THEN 5 ELSE 20]
            ELSE [r10 |-> NodeRadius10(isLargeGraph),
                  strokeWidth10 |-> IF isLargeGraph THEN 5 ELSE 20,
                  stroke |-> "#fff",
                  opacity10 |-> 10,
                  hover |-> ~isLargeGraph]]

\* applyHighlight on the circles
applyHighlightNodes(circles, hNodes) ==
    [id \in DOMAIN circles |->
        [circles[id] EXCEPT !.opacity10 = IF id \in hNodes THEN 10 ELSE 3,
                            !.strokeWidth10 = IF id \in hNodes THEN 30 ELSE 20]]

\* applyHighlight on the lines
applyHighlightLinks(lines, hLinks) ==
    [k \in DOMAIN lines |->
        [lines[k] EXCEPT !.opacity10 = IF k \in hLinks THEN 10 ELSE 1,
                         !.strokeWidth10 = IF k \in hLinks THEN 30 ELSE 10]]

\* highlightNode: the node, its neighbours in this.links
NeighborIds(links, id) ==
    {id} \cup {links[i].target : i \in {j \in 1..Len(links) : links[j].source = id}}
         \cup {links[i].source : i \in {j \in 1..Len(links) : links[j].target = id}}

IncidentKeys(links, id) ==
    {D3LinkKey(links[i]) : i \in {j \in 1..Len(links) :
                                    links[j].source = id \/ links[j].target = id}}

\* one queued callback: updateLinks(chunk) or updateNodes(chunk) on the layers
RECURSIVE RunCallbacks(_, _)
RunCallbacks(queue, els) ==
    IF queue = <<>> THEN els
    ELSE LET cb == Head(queue)
         IN  RunCallbacks(Tail(queue),
                IF cb.kind = "links"
                THEN [els EXCEPT !.lines = updateLinks(els.lines, cb.chunk)]
                ELSE [els EXCEPT !.circles = updateNodes(els.circles, cb.chunk)])

D3Options == [enableBatching : BOOLEAN, batchSize : {200, DefaultBatchSize}]

GraphUtilIdle ==
    /\ pc = "idle" /\ inNodes = <<>> /\ inLinks = <<>>
    /\ outNodes = <<>> /\ outLinks = <<>> /\ degrees = <<>>
    /\ optArgs = NoArgs /\ randomHits = {} /\ locals = NoLocals /\ result = NoResult

\* constructor
InitD3 ==
    /\ d3Options \in D3Options
    /\ d3Layers = "none"
    /\ d3Nodes = <<>> /\ d3Links = <<>>
    /\ d3Simulation = "none"
    /\ d3Circles = <<>> /\ d3Lines = <<>>
    /\ d3Raf = <<>>
    /\ d3SelectedNode = NoNode
    /\ d3HighlightedNodes = {} /\ d3HighlightedLinks = {}
    /\ d3Pointer = NoNode
    /\ d3LastCall = "constructor"
    /\ d3Error = FALSE

\* initialize(): empties the container and builds svg, g and the two layers
D3Initialize ==
    /\ d3Layers' = "attached"
    /\ d3Circles' = <<>> /\ d3Lines' = <<>>
    /\ d3Pointer' = NoNode
    /\ d3LastCall' = "initialize"
    /\ UNCHANGED <<d3Options, d3Nodes, d3Links, d3Simulation, d3Raf, d3SelectedNode,
                   d3HighlightedNodes, d3HighlightedLinks, d3Error>>
    /\ UNCHANGED <<gvars, wvars, kvars, cvars, vvars>>

\* the pointer stays over a circle only while the circle exists
PointerAfter(circles) == IF d3Pointer \in DOMAIN circles THEN d3Pointer ELSE NoNode

\* render(nodes, links): the data of forceLink must name nodes, as in every
\* graph of RenderGraphs
D3Render(g) ==
    /\ Len(d3Raf) <= MaxQueuedFrames
    /\ d3Nodes' = g.nodes
    /\ d3Links' = g.links
    /\ d3Simulation' = "running"
    /\ d3LastCall' = "render"
    /\ IF d3Options.enableBatching /\ Len(g.nodes) > BatchThreshold
       THEN /\ d3Raf' = d3Raf \o batchedUpdateLinks(g.links, d3Options.batchSize)
                              \o batchedUpdateNodes(g.nodes, d3Options.batchSize)
            /\ UNCHANGED <<d3Circles, d3Lines, d3Pointer, d3Error>>
       ELSE /\ d3Raf' = d3Raf
            /\ CASE d3Layers = "none" ->
                      \* this.g is null: TypeError in updateLinks
                      /\ d3Error' = TRUE
                      /\ UNCHANGED <<d3Circles, d3Lines, d3Pointer>>
                 [] d3Layers = "removed" ->
                      \* the layers are gone: the selections are empty
                      UNCHANGED <<d3Circles, d3Lines, d3Pointer, d3Error>>
                 [] d3Layers = "attached" ->
                      /\ d3Lines' = updateLinks(d3Lines, g.links)
                      /\ d3Circles' = updateNodes(d3Circles, g.nodes)
                      /\ d3Pointer' = PointerAfter(d3Circles')
                      /\ UNCHANGED d3Error
    /\ UNCHANGED <<d3Options, d3Layers, d3SelectedNode, d3HighlightedNodes,
                   d3HighlightedLinks>>
    /\ UNCHANGED <<gvars, wvars, kvars, cvars, vvars>>

\* one animation frame: every queued callback runs, in the order queued
D3Frame ==
    /\ d3Raf # <<>>
    /\ d3Raf' = <<>>
    /\ CASE d3Layers = "none" ->
              /\ d3Error' = TRUE
              /\ UNCHANGED <<d3Circles, d3Lines, d3Pointer>>
         [] d3Layers = "removed" ->
              UNCHANGED <<d3Circles, d3Lines, d3Pointer, d3Error>>
         [] d3Layers = "attached" ->
              LET els == RunCallbacks(d3Raf, [lines |-> d3Lines, circles |-> d3Circles])
              IN  /\ d3Lines' = els.lines
                  /\ d3Circles' = els.circles
                  /\ d3Pointer' = PointerAfter(els.circles)
                  /\ UNCHANGED d3Error
    /\ UNCHANGED <<d3Options, d3Layers, d3Nodes, d3Links, d3Simulation, d3SelectedNode,
                   d3HighlightedNodes, d3HighlightedLinks, d3LastCall>>
    /\ UNCHANGED <<gvars, wvars, kvars, cvars, vvars>>

\* click on circle n: selectNode(d, event)
D3Click(n) ==
    /\ n \in DOMAIN d3Circles
    /\ d3SelectedNode' = n
    /\ d3Circles' = [id \in DOMAIN d3Circles |->
                        [d3Circles[id] EXCEPT
                            !.strokeWidth10 = IF id = n THEN 50 ELSE 20,
                            !.stroke = IF id = n THEN "#ff0000" ELSE "#fff"]]
    /\ UNCHANGED <<d3Options, d3Layers, d3Nodes, d3Links, d3Simulation, d3Lines, d3Raf,
                   d3HighlightedNodes, d3HighlightedLinks, d3Pointer, d3LastCall, d3Error>>
    /\ UNCHANGED <<gvars, wvars, kvars, cvars, vvars>>

\* click on the background rect: deselectNode()
D3ClickBackground ==
    /\ d3Layers = "attached"
    /\ d3SelectedNode' = NoNode
    /\ d3Circles' = [id \in DOMAIN d3Circles |->
                        [d3Circles[id] EXCEPT !.strokeWidth10 = 20, !.stroke = "#fff"]]
    /\ UNCHANGED <<d3Options, d3Layers, d3Nodes, d3Links, d3Simulation, d3Lines, d3Raf,
                   d3HighlightedNodes, d3HighlightedLinks, d3Pointer, d3LastCall, d3Error>>
    /\ UNCHANGED <<gvars, wvars, kvars, cvars, vvars>>

\* the pointer enters circle n; mouseenter calls highlightNode(d) when the
\* circle carries the handler
D3HoverEnter(n) ==
    /\ n \in DOMAIN d3Circles
    /\ d3Pointer = NoNode
    /\ d3Pointer' = n
    /\ IF d3Circles[n].hover
       THEN /\ d3HighlightedNodes' = NeighborIds(d3Links, n)
            /\ d3HighlightedLinks' = IncidentKeys(d3Links, n)
            /\ d3Circles' = applyHighlightNodes(d3Circles, d3HighlightedNodes')
            /\ d3Lines' = applyHighlightLinks(d3Lines, d3HighlightedLinks')
       ELSE UNCHANGED <<d3HighlightedNodes, d3HighlightedLinks, d3Circles, d3Lines>>
    /\ UNCHANGED <<d3Options, d3Layers, d3Nodes, d3Links, d3Simulation, d3Raf,
                   d3SelectedNode, d3LastCall, d3Error>>
    /\ UNCHANGED <<gvars, wvars, kvars, cvars, vvars>>

\* the pointer leaves its circle; mouseleave calls unhighlightNode()
D3HoverLeave ==
    /\ d3Pointer # NoNode
    /\ d3Pointer' = NoNode
    /\ IF d3Circles[d3Pointer].hover
       THEN /\ d3HighlightedNodes' = {}
            /\ d3HighlightedLinks' = {}
            /\ d3Circles' = applyHighlightNodes(d3Circles, {})
            /\ d3Lines' = applyHighlightLinks(d3Lines, {})
       ELSE UNCHANGED <<d3HighlightedNodes, d3HighlightedLinks, d3Circles, d3Lines>>
    /\ UNCHANGED <<d3Options, d3Layers, d3Nodes, d3Links, d3Simulation, d3Raf,
                   d3SelectedNode, d3LastCall, d3Error>>
    /\ UNCHANGED <<gvars, wvars, kvars, cvars, vvars>>

StopSimulationToggle(sim) ==
    IF sim = "running" THEN "stopped" ELSE IF sim = "stopped" THEN "running" ELSE "none"

\* if (this.simulation) this.simulation.stop()
StopSimulation(sim) == IF sim = "none" THEN "none" ELSE "stopped"

\* pause()
D3Pause ==
    /\ d3Simulation' = StopSimulation(d3Simulation)
    /\ d3LastCall' = "pause"
    /\ UNCHANGED <<d3Options, d3Layers, d3Nodes, d3Links, d3Circles, d3Lines, d3Raf,
                   d3SelectedNode, d3HighlightedNodes, d3HighlightedLinks, d3Pointer,
                   d3Error>>
    /\ UNCHANGED <<gvars, wvars, kvars, cvars, vvars>>

\* resume()
D3Resume ==
    /\ d3Simulation' = IF d3Simulation = "none" THEN "none" ELSE "running"
    /\ d3LastCall' = "resume"
    /\ UNCHANGED <<d3Options, d3Layers, d3Nodes, d3Links, d3Circles, d3Lines, d3Raf,
                   d3SelectedNode, d3HighlightedNodes, d3HighlightedLinks, d3Pointer,
                   d3Error>>
    /\ UNCHANGED <<gvars, wvars, kvars, cvars, vvars>>

\* clear(): stops the simulation and removes every element of the container
D3Clear ==
    /\ d3Simulation' = StopSimulation(d3Simulation)
    /\ d3Layers' = IF d3Layers = "none" THEN "none" ELSE "removed"
    /\ d3Circles' = <<>> /\ d3Lines' = <<>>
    /\ d3Pointer' = NoNode
    /\ d3LastCall' = "clear"
    /\ UNCHANGED <<d3Options, d3Nodes, d3Links, d3Raf, d3SelectedNode,
                   d3HighlightedNodes, d3HighlightedLinks, d3Error>>
    /\ UNCHANGED <<gvars, wvars, kvars, cvars, vvars>>

\* resize(width, height): the svg is resized and the simulation restarted
D3Resize ==
    /\ d3Simulation' = IF d3Simulation = "none" THEN "none" ELSE "running"
    /\ d3LastCall' = "resize"
    /\ UNCHANGED <<d3Options, d3Layers, d3Nodes, d3Links, d3Circles, d3Lines, d3Raf,
                   d3SelectedNode, d3HighlightedNodes, d3HighlightedLinks, d3Pointer,
                   d3Error>>
    /\ UNCHANGED <<gvars, wvars, kvars, cvars, vvars>>

SmallGraphs == {GraphOf(p[1], p[2]) : p \in SmallShapes}

\* drawing: the owner initializes, renders, pauses, resumes, resizes and clears; the
\* browser runs frames
NextD3Draw ==
    \/ D3Initialize
    \/ \E g \in RenderGraphs : D3Render(g)
    \/ D3Frame
    \/ D3Pause
    \/ D3Resume
    \/ D3Resize
    \/ D3Clear

InitD3Spec == GraphUtilIdle /\ WebGLIdle /\ WorkerIdle /\ ViewIdle /\ CallIdle /\ InitD3

SpecD3Draw == InitD3Spec /\ [][NextD3Draw]_vars

\* interaction: the owner initializes and renders small graphs; the user
\* clicks and moves the pointer
NextD3Interact ==
    \/ D3Initialize
    \/ \E g \in SmallGraphs : D3Render(g)
    \/ \E n \in ProbeIds : D3Click(n)
    \/ D3ClickBackground
    \/ \E n \in ProbeIds : D3HoverEnter(n)
    \/ D3HoverLeave

SpecD3Interact == InitD3Spec /\ [][NextD3Interact]_vars

-----------------------------------------------------------------------------
(* WebGLNetworkRenderer (src/unnamed/part_003, lines 504-1017) *)

\* the steps of the try block of initialize() at which the environment can
\* make it throw: ForceGraph3D()(container) (line 557), the first call on the
\* new instance (line 560), require('d3-force') (line 633); "none": no throw
SetupFailures == {"none", "create", "size", "forces"}

\* canvas.getContext('2d') returns a context or null
CanvasOutcomes == {"ctx", "noctx"}

\* the constructor
NoEvent == [kind |-> "none"]

InitWebGL ==
    /\ glGraph = "null" /\ glSetup = "none" /\ glHandlers = FALSE
    /\ glCanvas = "none"
    /\ glNodes = <<>> /\ glLinks = <<>> /\ glScene = {}
    /\ glSelectedNode = NoNode /\ glHoveredNode = NoNode
    /\ glIsPaused = FALSE
    /\ glDrawnBy = "none"
    /\ glErrorReported = FALSE
    /\ glLastCall = "constructor"
    /\ glListeners = {} /\ glLastEvent = NoEvent /\ glInvoked = {}

\* createFallbackCanvas(): this.canvas is the new canvas, this.ctx its context
createFallbackCanvas(outcome) == outcome

\* initialize(): this.graph is assigned as soon as the instance exists; the
\* catch block reports the error and creates the fallback canvas
GlInitialize(failAt, outcome) ==
    /\ glGraph' = IF failAt = "create" THEN glGraph ELSE "instance"
    /\ glHandlers' = CASE failAt = "create" -> glHandlers
                       [] failAt = "size" -> FALSE
                       [] OTHER -> TRUE
    /\ glScene' = IF failAt = "create" THEN glScene ELSE {}
    /\ glSetup' = IF failAt = "none" THEN "complete" ELSE "failed"
    /\ glErrorReported' = (failAt # "none")
    /\ glCanvas' = IF failAt = "none" THEN glCanvas ELSE createFallbackCanvas(outcome)
    /\ failAt = "none" => outcome = "ctx"
    /\ glDrawnBy' = "none"
    /\ glLastCall' = "initialize"
    /\ UNCHANGED <<glNodes, glLinks, glSelectedNode, glHoveredNode, glIsPaused>>
    /\ UNCHANGED <<glListeners, glLastEvent, glInvoked>>
    /\ UNCHANGED <<gvars, dvars, kvars, cvars, vvars>>

\* render(nodes, links, styles): this.graph.graphData(graphData) inside try,
\* else renderFallback when canvas and ctx exist, else nothing; threw: the
\* call of graphData throws, applied: the instance took the data
GlRender(g, threw, applied) ==
    /\ glGraph = "null" => ~threw /\ applied
    /\ ~threw => applied
    /\ glNodes' = g.nodes
    /\ glLinks' = g.links
    /\ glLastCall' = "render"
    /\ CASE glGraph = "instance" ->
              /\ glScene' = IF applied THEN Range(g.nodes) ELSE glScene
              /\ glDrawnBy' = IF applied THEN "gpu" ELSE "none"
              /\ glErrorReported' = threw
         [] glGraph = "null" /\ glCanvas = "ctx" ->
              /\ glDrawnBy' = "canvas"
              /\ glErrorReported' = FALSE
              /\ UNCHANGED glScene
         [] OTHER ->
              /\ glDrawnBy' = "none"
              /\ glErrorReported' = FALSE
              /\ UNCHANGED glScene
    /\ UNCHANGED <<glGraph, glSetup, glHandlers, glCanvas, glSelectedNode, glHoveredNode,
                   glIsPaused>>
    /\ UNCHANGED <<glListeners, glLastEvent, glInvoked>>
    /\ UNCHANGED <<gvars, dvars, kvars, cvars, vvars>>

\* on(eventName, callback): stores the callback under one of the three names
on(listeners, eventName) ==
    IF eventName \in {"nodeClick", "nodeHover", "nodeUnhover"}
    THEN listeners \cup {eventName}
    ELSE listeners

GlOn(eventName) ==
    /\ glListeners' = on(glListeners, eventName)
    /\ UNCHANGED <<glGraph, glSetup, glHandlers, glCanvas, glNodes, glLinks, glScene,
                   glSelectedNode, glHoveredNode, glIsPaused, glDrawnBy, glErrorReported,
                   glLastCall, glLastEvent, glInvoked>>
    /\ UNCHANGED <<gvars, dvars, kvars, cvars, vvars>>

\* the callback given to this.graph.onNodeClick: calls the nodeClick
\* listener with the node when one is stored
ClickCalls(listeners, n) ==
    IF "nodeClick" \in listeners THEN {[listener |-> "nodeClick", node |-> n]} ELSE {}

\* the callback given to this.graph.onNodeHover: calls no listener
HoverCalls(listeners, n, previous) == {}

\* the instance reports a click on node n: selectNode(node), then the listener
GlNodeClick(n) ==
    /\ glGraph = "instance" /\ glHandlers
    /\ n \in glScene
    /\ glSelectedNode' = n
    /\ glLastEvent' = [kind |-> "click", node |-> n, previous |-> NoNode,
                       listeners |-> glListeners]
    /\ glInvoked' = ClickCalls(glListeners, n)
    /\ UNCHANGED <<glGraph, glSetup, glHandlers, glCanvas, glNodes, glLinks, glScene,
                   glHoveredNode, glIsPaused, glDrawnBy, glErrorReported, glLastCall,
                   glListeners>>
    /\ UNCHANGED <<gvars, dvars, kvars, cvars, vvars>>

\* the instance reports the node under the pointer (NoNode: null) when it
\* changes: the pointer has left the previous node and entered node n
GlNodeHover(n) ==
    /\ glGraph = "instance" /\ glHandlers
    /\ n \in glScene \cup {NoNode}
    /\ n # glHoveredNode
    /\ glHoveredNode' = n
    /\ glLastEvent' = [kind |-> "hover", node |-> n, previous |-> glHoveredNode,
                       listeners |-> glListeners]
    /\ glInvoked' = HoverCalls(glListeners, n, glHoveredNode)
    /\ UNCHANGED <<glGraph, glSetup, glHandlers, glCanvas, glNodes, glLinks, glScene,
                   glSelectedNode, glIsPaused, glDrawnBy, glErrorReported, glLastCall,
                   glListeners>>
    /\ UNCHANGED <<gvars, dvars, kvars, cvars, vvars>>

\* pause()
GlPause ==
    /\ glIsPaused' = TRUE
    /\ glErrorReported' = FALSE
    /\ glLastCall' = "pause"
    /\ UNCHANGED <<glGraph, glSetup, glHandlers, glCanvas, glNodes, glLinks, glScene,
                   glSelectedNode, glHoveredNode, glDrawnBy>>
    /\ UNCHANGED <<glListeners, glLastEvent, glInvoked>>
    /\ UNCHANGED <<gvars, dvars, kvars, cvars, vvars>>

\* resume()
GlResume ==
    /\ glIsPaused' = FALSE
    /\ glErrorReported' = FALSE
    /\ glLastCall' = "resume"
    /\ UNCHANGED <<glGraph, glSetup, glHandlers, glCanvas, glNodes, glLinks, glScene,
                   glSelectedNode, glHoveredNode, glDrawnBy>>
    /\ UNCHANGED <<glListeners, glLastEvent, glInvoked>>
    /\ UNCHANGED <<gvars, dvars, kvars, cvars, vvars>>

\* resize(width, height): the instance and the fallback canvas are resized
GlResize ==
    /\ glErrorReported' = FALSE
    /\ glLastCall' = "resize"
    /\ UNCHANGED <<glGraph, glSetup, glHandlers, glCanvas, glNodes, glLinks, glScene,
                   glSelectedNode, glHoveredNode, glIsPaused, glDrawnBy>>
    /\ UNCHANGED <<glListeners, glLastEvent, glInvoked>>
    /\ UNCHANGED <<gvars, dvars, kvars, cvars, vvars>>

\* clear(): empties the instance and the container, drops the instance
GlClear ==
    /\ glGraph' = "null"
    /\ glHandlers' = FALSE
    /\ glScene' = {}
    /\ glNodes' = <<>> /\ glLinks' = <<>>
    /\ glSelectedNode' = NoNode
    /\ glDrawnBy' = "none"
    /\ glErrorReported' = FALSE
    /\ glLastCall' = "clear"
    /\ UNCHANGED <<glSetup, glCanvas, glHoveredNode, glIsPaused>>
    /\ UNCHANGED <<glListeners, glLastEvent, glInvoked>>
    /\ UNCHANGED <<gvars, dvars, kvars, cvars, vvars>>

NextWebGL ==
    \/ \E failAt \in SetupFailures, outcome \in CanvasOutcomes : GlInitialize(failAt, outcome)
    \/ \E g \in SmallGraphs, threw \in BOOLEAN, applied \in BOOLEAN : GlRender(g, threw, applied)
    \/ \E n \in 1..MaxSmallNodes : GlNodeClick(n)
    \/ \E n \in 0..MaxSmallNodes : GlNodeHover(n)
    \/ GlPause
    \/ GlResume
    \/ GlResize
    \/ GlClear

InitWebGLSpec == GraphUtilIdle /\ D3Idle /\ WorkerIdle /\ ViewIdle /\ CallIdle /\ InitWebGL

SpecWebGL == InitWebGLSpec /\ [][NextWebGL]_vars

\* the life cycle of the two renderers of the application: the D3 renderer of
\* NodeInfoPanel and the WebGL renderer of NetworkGraph
LifecycleGraphs == {GraphOf(0, 0), GraphOf(MaxSmallNodes - 1, MaxSmallNodes - 2)}

NextLifecycle ==
    \/ D3Initialize
    \/ \E g \in LifecycleGraphs : D3Render(g)
    \/ D3Pause
    \/ D3Resume
    \/ D3Resize
    \/ D3Clear
    \/ \E failAt \in SetupFailures, outcome \in CanvasOutcomes : GlInitialize(failAt, outcome)
    \/ \E g \in LifecycleGraphs : GlRender(g, FALSE, TRUE)
    \/ GlPause
    \/ GlResume
    \/ GlResize
    \/ GlClear

InitLifecycle == GraphUtilIdle /\ WorkerIdle /\ ViewIdle /\ CallIdle /\ InitD3 /\ InitWebGL

SpecLifecycle == InitLifecycle /\ [][NextLifecycle]_vars

\* events: the owner initializes, renders, registers listeners and clears; the
\* instance reports clicks and pointer moves
EventNames == {"nodeClick", "nodeHover", "nodeUnhover", "nodeDrag"}

NextWebGLEvents ==
    \/ \E failAt \in SetupFailures, outcome \in CanvasOutcomes : GlInitialize(failAt, outcome)
    \/ \E g \in LifecycleGraphs : GlRender(g, FALSE, TRUE)
    \/ \E eventName \in EventNames : GlOn(eventName)
    \/ \E n \in 1..MaxSmallNodes : GlNodeClick(n)
    \/ \E n \in 0..MaxSmallNodes : GlNodeHover(n)
    \/ GlClear

SpecWebGLEvents == InitWebGLSpec /\ [][NextWebGLEvents]_vars

-----------------------------------------------------------------------------
(* dataMapping.js: the worker (lines 374-696) *)

MaxWorkerNodes == 2   \* longest payload.nodes of a worker message
MaxWorkerLinks == 2   \* longest payload.links of a worker message

\* a value that is no array (undefined, null, a plain object) and an array
Undefined == [isArray |-> FALSE]
Arr(items) == [isArray |-> TRUE, items |-> items]

\* the cases of the switch; any other type falls to default
TaskTypes == {"calculateDegrees", "optimizeGraph", "generateColors", "calculateSizes",
              "cleanData"}

MessageTypes == TaskTypes \cup {"unknownTask"}

WorkerNodeArrays ==
    {Undefined} \cup {Arr(l) : l \in SeqsUpTo({IdA, IdC}, MaxWorkerNodes)}

WorkerLinkArrays ==
    {Undefined} \cup
    {Arr(l) : l \in SeqsUpTo({Link(IdA, IdC), Link(IdC, IdA), Link(IdA, IdA)}, MaxWorkerLinks)}

\* event.data.payload: absent, or an object whose nodes and links are
\* arrays or not; payload.degrees is the degree object of the two arrays when
\* both are arrays, and is absent otherwise
NoPayload == [present |-> FALSE]

Payloads ==
    {NoPayload} \cup
    {[present |-> TRUE, nodes |-> n, links |-> l, maxNodes |-> k] :
        n \in WorkerNodeArrays, l \in WorkerLinkArrays, k \in 1..MaxWorkerNodes}

\* event.data: a request object, or null
Messages ==
    {[data |-> "object", type |-> t, payload |-> p] : t \in MessageTypes, p \in Payloads}

NullData == [data |-> "null"]

HasArrays(p) == p.present /\ p.nodes.isArray /\ p.links.isArray

\* payload.threshold and payload.options of an optimizeGraph message
WorkerOptions(p) ==
    [maxNodes |-> p.maxNodes, threshold |-> 2, preserveTopPercent |-> 15,
     enableCommunityMerge |-> TRUE]

Threw(message) == [threw |-> TRUE, message |-> message]
Value(v) == [threw |-> FALSE, value |-> v]

\* generateNodeColors: the index into colors of each node
generateNodeColors(nodes, links) ==
    LET entries == calculateNodeDegrees(nodes, links)
    IN  [i \in 1..Len(nodes) |->
            [id |-> nodes[i], colorIndex |-> DegreeOf(entries, nodes[i]) % 10]]

\* Math.max(...values) and Math.min(...values) of a non-empty list
MaxOf(entries) == CHOOSE d \in {entries[i].degree : i \in 1..Len(entries)} :
                     \A j \in 1..Len(entries) : entries[j].degree <= d
MinOf(entries) == CHOOSE d \in {entries[i].degree : i \in 1..Len(entries)} :
                     \A j \in 1..Len(entries) : entries[j].degree >= d

\* calculateNodeSizes with the defaults minSize = 5, maxSize = 30; a size is
\* the fraction num / den
calculateNodeSizes(entries) ==
    IF entries = <<>> THEN <<>>
    ELSE LET minDegree == MinOf(entries)
             scale == IF MaxOf(entries) - minDegree = 0 THEN 1
                      ELSE MaxOf(entries) - minDegree
         IN  [i \in 1..Len(entries) |->
                 [id |-> entries[i].id,
                  num |-> 5 * scale + (entries[i].degree - minDegree) * (30 - 5),
                  den |-> scale]]

UnknownTaskIgnored(type) == Value("undefined")

\* default: throw new Error(`Unknown task type: ${type}`)
UnknownTask(type) == Threw("Unknown task type")

\* the switch statement: the value of result, or the exception raised;
\* hits is the outcome of the Math.random() draws of optimizeGraph
RunTask(msg, hits) ==
    LET p == msg.payload
    IN  CASE msg.type \in {"calculateDegrees", "generateColors", "cleanData"} ->
               IF ~HasArrays(p) THEN Threw("TypeError")
               ELSE CASE msg.type = "calculateDegrees" ->
                           Value(calculateNodeDegrees(p.nodes.items, p.links.items))
                      [] msg.type = "generateColors" ->
                           Value(generateNodeColors(p.nodes.items, p.links.items))
                      [] OTHER ->
                           Value([nodes |-> cleanNodes(p.nodes.items),
                                  links |-> cleanLinks(p.links.items)])
          [] msg.type = "calculateSizes" ->
               IF ~HasArrays(p) THEN Threw("TypeError")
               ELSE Value(calculateNodeSizes(
                              calculateNodeDegrees(p.nodes.items, p.links.items)))
          [] msg.type = "optimizeGraph" ->
               IF ~p.present \/ ~p.nodes.isArray THEN Threw("TypeError")
               ELSE IF WithinBudget(Len(p.nodes.items), p.maxNodes)
                    THEN Value([nodes |-> p.nodes, links |-> p.links, filteredCount |-> 0,
                                compressionRate |-> 0, optimizationLevel |-> "none"])
                    ELSE IF ~p.links.isArray THEN Threw("TypeError")
                    ELSE LET o == WorkerOptions(p)
                             loc == ReductionLocals(p.nodes.items, p.links.items, o)
                         IN  Value(ReduceWith(p.nodes.items, p.links.items, o, loc, hits))
          [] OTHER -> UnknownTask(msg.type)

\* the Math.random() outcomes open to a message
DrawsOf(msg) ==
    LET p == msg.payload
    IN  IF msg.type = "optimizeGraph" /\ HasArrays(p)
           /\ ~WithinBudget(Len(p.nodes.items), p.maxNodes)
        THEN SUBSET Range(p.nodes.items)
        ELSE {{}}

InitWorker ==
    /\ wkPc = "idle"
    /\ wkMsg = [data |-> "none"]
    /\ wkOutcome = "none"
    /\ wkPosted = <<>>
    /\ wkEscaped = FALSE

\* a message event for the waiting worker is queued
Deliver(msg) ==
    /\ wkPc = "idle"
    /\ wkPc' = "delivered"
    /\ wkMsg' = msg
    /\ wkOutcome' = "none"
    /\ wkPosted' = <<>>
    /\ wkEscaped' = FALSE
    /\ UNCHANGED <<gvars, dvars, wvars, cvars, vvars>>

\* self.onmessage with event.data = null: the destructuring before try throws
OnNullMessage ==
    /\ wkPc = "delivered"
    /\ wkMsg = NullData
    /\ wkEscaped' = TRUE
    /\ wkPc' = "handled"
    /\ UNCHANGED <<wkMsg, wkOutcome, wkPosted>>
    /\ UNCHANGED <<gvars, dvars, wvars, cvars, vvars>>

\* self.onmessage: the task inside try, one postMessage after it or in catch
OnMessage ==
    /\ wkPc = "delivered"
    /\ wkMsg # NullData
    /\ \E hits \in DrawsOf(wkMsg) :
          LET r == RunTask(wkMsg, hits)
          IN  /\ wkOutcome' = IF ~r.threw THEN "completed"
                              ELSE IF wkMsg.type \in TaskTypes THEN "threw" ELSE "unknown"
              /\ wkPosted' =
                    IF r.threw
                    THEN <<[success |-> FALSE, type |-> wkMsg.type, error |-> r.message]>>
                    ELSE <<[success |-> TRUE, type |-> wkMsg.type, result |-> r.value]>>
    /\ wkEscaped' = FALSE
    /\ wkPc' = "handled"
    /\ UNCHANGED wkMsg
    /\ UNCHANGED <<gvars, dvars, wvars, cvars, vvars>>

\* the handler has returned: the worker waits for the next message
AwaitMessage ==
    /\ wkPc = "handled"
    /\ wkPc' = "idle"
    /\ wkMsg' = [data |-> "none"]
    /\ wkOutcome' = "none"
    /\ wkPosted' = <<>>
    /\ wkEscaped' = FALSE
    /\ UNCHANGED <<gvars, dvars, wvars, cvars, vvars>>

NextWorker ==
    \/ \E msg \in Messages \cup {NullData} : Deliver(msg)
    \/ OnMessage
    \/ OnNullMessage
    \/ AwaitMessage

InitWorkerSpec == GraphUtilIdle /\ RendererIdle /\ CallIdle /\ ViewIdle /\ InitWorker

SpecWorker == InitWorkerSpec /\ [][NextWorker]_vars

-----------------------------------------------------------------------------
(* part_002: validateNetworkData (lines 574-620) *)

MaxValidateNodes == 2   \* longest nodes array given to validateNetworkData
MaxValidateLinks == 1   \* longest links array given to validateNetworkData

\* "" stands for a missing (falsy) field
ValidateNodes == [id : {"", "a", "c"}, label : {"", "A"}]
ValidateLinks == [source : {"", "a"}, target : {"", "a", "g"}]

ValidateNodeArgs == {Undefined} \cup {Arr(l) : l \in SeqsUpTo(ValidateNodes, MaxValidateNodes)}
ValidateLinkArgs == {Undefined} \cup {Arr(l) : l \in SeqsUpTo(ValidateLinks, MaxValidateLinks)}

Issue(text, index) == [text |-> text, index |-> index]

\* the issues pushed by the callbacks of one forEach, in order
RECURSIVE Flatten(_)
Flatten(lists) == IF lists = <<>> THEN <<>> ELSE Head(lists) \o Flatten(Tail(lists))

\* lines 582-589
NodeIssues(node, index) ==
    (IF node.id = "" THEN <<Issue("Node missing required field: id", index)>> ELSE <<>>)
    \o (IF node.label = "" THEN <<Issue("Node missing required field: label", index)>>
        ELSE <<>>)

\* lines 596-600
LinkFieldIssues(link, index) ==
    IF link.source = "" \/ link.target = ""
    THEN <<Issue("Link missing required fields: source or target", index)>>
    ELSE <<>>

\* lines 603-614, given the ids of nodes
LinkReferenceIssues(nodeIds, link, index) ==
    (IF link.source \notin nodeIds
     THEN <<Issue("Link references unknown source node", index)>> ELSE <<>>)
    \o (IF link.target \notin nodeIds
        THEN <<Issue("Link references unknown target node", index)>> ELSE <<>>)

\* validateNetworkData(nodes, links): the object returned, or the TypeError
\* raised by forEach on a value that is no array
validateNetworkData(nodes, links) ==
    IF ~nodes.isArray THEN Threw("TypeError")
    ELSE IF ~links.isArray THEN Threw("TypeError")
    ELSE LET nodeIds == {nodes.items[i].id : i \in 1..Len(nodes.items)}
             issues ==
                (IF nodes.items = <<>>
                 THEN <<Issue("Nodes must be a non-empty array", 0)>> ELSE <<>>)
                \o Flatten([i \in 1..Len(nodes.items) |-> NodeIssues(nodes.items[i], i - 1)])
                \o Flatten([i \in 1..Len(links.items) |->
                                LinkFieldIssues(links.items[i], i - 1)])
                \o Flatten([i \in 1..Len(links.items) |->
                                LinkReferenceIssues(nodeIds, links.items[i], i - 1)])
         IN  Value([isValid |-> issues = <<>>, issues |-> issues])

InitValidate ==
    /\ callPc = "input"
    /\ callArgs \in {[fn |-> "validateNetworkData", nodes |-> n, links |-> l] :
                        n \in ValidateNodeArgs, l \in ValidateLinkArgs}
    /\ callResult = <<>>

\* a caller runs validateNetworkData(nodes, links)
Validate ==
    /\ callPc = "input"
    /\ callArgs.fn = "validateNetworkData"
    /\ callResult' = validateNetworkData(callArgs.nodes, callArgs.links)
    /\ callPc' = "returned"
    /\ UNCHANGED callArgs
    /\ UNCHANGED <<gvars, dvars, wvars, kvars, vvars>>

NextValidate == Validate

InitValidateSpec == GraphUtilIdle /\ RendererIdle /\ WorkerIdle /\ ViewIdle /\ InitValidate

SpecValidate == InitValidateSpec /\ [][NextValidate]_vars

-----------------------------------------------------------------------------
(* graphUtils.js: optimizeGraphForPerformance on graphs of more than 40 nodes *)

MaxLargeExtra == 1    \* the large graphs have 41..41+MaxLargeExtra or 51..51+MaxLargeExtra nodes
MaxLargeLinks == 2    \* most links of a large graph

\* 64 two-character ids
Letters == <<"a", "b", "c", "d", "e", "f", "g", "-">>
LargeNodeOrder ==
    [k \in 1..64 |-> <<Letters[((k - 1) \div 8) + 1], Letters[((k - 1) % 8) + 1]>>]

LargeCounts == (41..(41 + MaxLargeExtra)) \cup (51..(51 + MaxLargeExtra))

\* maxNodes below and at the hub count of line 149
LargeBudgets == {8, MinTopNodes}

LargeNodeLists == {SubSeq(LargeNodeOrder, 1, n) : n \in LargeCounts}

\* the chain 1 -> 2 -> ... of at most MaxLargeLinks links
LargeLinkLists(nodes) ==
    {[i \in 1..m |-> Link(nodes[i], nodes[i + 1])] : m \in 0..MaxLargeLinks}

LargeOptions ==
    [maxNodes : LargeBudgets, threshold : 1..MaxThreshold,
     preserveTopPercent : {15}, enableCommunityMerge : BOOLEAN]

InitOptimizeLarge ==
    /\ RendererIdle /\ WorkerIdle /\ ViewIdle /\ CallIdle
    /\ pc = "input"
    /\ inNodes \in LargeNodeLists
    /\ inLinks \in LargeLinkLists(inNodes)
    /\ outNodes = <<>> /\ outLinks = <<>> /\ degrees = <<>>
    /\ optArgs = NoArgs /\ randomHits = {} /\ locals = NoLocals /\ result = NoResult

\* one call of optimizeGraphForPerformance on a large graph; of the outcomes
\* of the Math.random() draws, those that hit exactly the first k candidates
OptimizeLarge ==
    /\ pc = "input"
    /\ \E o \in LargeOptions :
         /\ o.maxNodes < Len(inNodes)
         /\ LET loc == ReductionLocals(inNodes, inLinks, o)
                draws == IF loc.samplingRuns
                         THEN {Range(SubSeq(loc.mergedIds, 1, k)) :
                                  k \in 0..Len(loc.mergedIds)}
                         ELSE {{}}
            IN  \E hits \in draws :
                   /\ optArgs' = o
                   /\ randomHits' = hits
                   /\ locals' = loc
                   /\ result' = optimizeGraphForPerformance(inNodes, inLinks, o, loc, hits)
    /\ pc' = "optimized"
    /\ UNCHANGED <<inNodes, inLinks, outNodes, outLinks, degrees>>
    /\ UNCHANGED <<dvars, wvars, kvars, cvars, vvars>>

NextOptimizeLarge == OptimizeLarge

SpecOptimizeLarge == InitOptimizeLarge /\ [][NextOptimizeLarge]_vars

-----------------------------------------------------------------------------
(* graphUtils.js: optimizeGraphForPerformance on the ten-node scenario *)

\* ten nodes; node k has degree ScenarioDegrees[k]
ScenarioNodes == SubSeq(LargeNodeOrder, 1, 10)
ScenarioDegrees == <<5, 4, 3, 3, 2, 2, 1, 1, 1, 1>>
ScenarioBudget == 6

\* links between nodes i and j of the scenario, and from node i to an id
\* that no node carries (the degrees sum to an odd number)
ScenarioLink(i, j) == Link(ScenarioNodes[i], ScenarioNodes[j])
ScenarioDangling(i) == Link(ScenarioNodes[i], Dangling)

\* two graphs with the degrees of the scenario
ScenarioLinkLists ==
    {<<ScenarioLink(1, 2), ScenarioLink(1, 3), ScenarioLink(1, 4), ScenarioLink(1, 5),
       ScenarioLink(1, 6), ScenarioLink(2, 3), ScenarioLink(2, 4), ScenarioLink(2, 7),
       ScenarioLink(3, 8), ScenarioLink(4, 9), ScenarioLink(5, 10), ScenarioDangling(6)>>,
     <<ScenarioLink(1, 2), ScenarioLink(1, 3), ScenarioLink(1, 4), ScenarioLink(1, 7),
       ScenarioLink(1, 8), ScenarioLink(2, 3), ScenarioLink(2, 5), ScenarioLink(2, 6),
       ScenarioLink(3, 4), ScenarioLink(4, 9), ScenarioLink(5, 10), ScenarioDangling(6)>>}

ScenarioOptions ==
    [maxNodes : {ScenarioBudget}, threshold : 1..MaxThreshold,
     preserveTopPercent : {10, 15}, enableCommunityMerge : BOOLEAN]

InitScenario ==
    /\ RendererIdle /\ WorkerIdle /\ ViewIdle /\ CallIdle
    /\ pc = "input"
    /\ inNodes = ScenarioNodes
    /\ inLinks \in ScenarioLinkLists
    /\ outNodes = <<>> /\ outLinks = <<>> /\ degrees = <<>>
    /\ optArgs = NoArgs /\ randomHits = {} /\ locals = NoLocals /\ result = NoResult

\* one call of optimizeGraphForPerformance on a graph of the scenario, with
\* every outcome of the Math.random() draws
OptimizeScenario ==
    /\ pc = "input"
    /\ \E o \in ScenarioOptions :
         LET loc == ReductionLocals(inNodes, inLinks, o)
             draws == IF loc.samplingRuns THEN SUBSET Range(loc.mergedIds) ELSE {{}}
         IN  \E hits \in draws :
                /\ optArgs' = o
                /\ randomHits' = hits
                /\ locals' = loc
                /\ result' = optimizeGraphForPerformance(inNodes, inLinks, o, loc, hits)
    /\ pc' = "optimized"
    /\ UNCHANGED <<inNodes, inLinks, outNodes, outLinks, degrees>>
    /\ UNCHANGED <<dvars, wvars, kvars, cvars, vvars>>

NextScenario == OptimizeScenario

SpecScenario == InitScenario /\ [][NextScenario]_vars

-----------------------------------------------------------------------------
(* Two calls of optimizeGraphForPerformance with the same arguments *)

\* graphs with more nodes than the hub count of line 149
RepeatNodeLists == {nodes \in LargeNodeLists : Len(nodes) > MinTopNodes}

\* outcomes of the Math.random() draws of one call over the candidate ids:
\* no draw below sampleRate, the last one only, all of them
DrawOutcomes(ids) ==
    IF ids = <<>> THEN {{}} ELSE {{}, {ids[Len(ids)]}, Range(ids)}

InitOptimizeTwice ==
    /\ RendererIdle /\ WorkerIdle /\ ViewIdle /\ CallIdle
    /\ pc = "input"
    /\ inNodes \in RepeatNodeLists
    /\ inLinks \in LargeLinkLists(inNodes)
    /\ outNodes = <<>> /\ outLinks = <<>> /\ degrees = <<>>
    /\ optArgs = NoArgs /\ randomHits = {} /\ locals = NoLocals /\ result = NoResult

\* the first call; randomHits keeps the draws only when randomSampleNodes ran
OptimizeFirst ==
    /\ pc = "input"
    /\ \E o \in LargeOptions :
         /\ o.maxNodes < Len(inNodes)
         /\ LET loc == ReductionLocals(inNodes, inLinks, o)
            IN  \E hits \in DrawOutcomes(loc.mergedIds) :
                   /\ optArgs' = o
                   /\ randomHits' = IF loc.samplingRuns THEN hits ELSE {}
                   /\ locals' = loc
                   /\ result' = optimizeGraphForPerformance(inNodes, inLinks, o, loc, hits)
    /\ pc' = "optimized"
    /\ UNCHANGED <<inNodes, inLinks, outNodes, outLinks, degrees>>
    /\ UNCHANGED <<dvars, wvars, kvars, cvars, vvars>>

\* the second call, with the arguments of the first and draws of its own
OptimizeSecond ==
    /\ pc = "optimized" /\ callPc = "idle"
    /\ callArgs' = [fn |-> "optimizeGraphForPerformance", nodes |-> inNodes,
                    links |-> inLinks, options |-> optArgs]
    /\ LET loc == ReductionLocals(inNodes, inLinks, optArgs)
       IN  \E hits \in DrawOutcomes(loc.mergedIds) :
              callResult' = optimizeGraphForPerformance(inNodes, inLinks, optArgs, loc, hits)
    /\ callPc' = "returned"
    /\ UNCHANGED <<gvars, dvars, wvars, kvars, vvars>>

NextOptimizeTwice == OptimizeFirst \/ OptimizeSecond

SpecOptimizeTwice == InitOptimizeTwice /\ [][NextOptimizeTwice]_vars

-----------------------------------------------------------------------------
(* D3NetworkRenderer.getOptimizedSimulationConfig *)

MaxNodeCount == 5001

\* node counts around every breakpoint, every count of the band [500, 1000),
\* and counts of the band above it
ConfigCounts ==
    {0, 1, 99, 100, 101, 499} \cup (500..999)
        \cup {1000, 1001, 1500, 4999, MaxNodeCount - 1, MaxNodeCount}

\* the same lookup without its last band
ConfigWithoutLastBand(nodeCount) ==
    IF nodeCount < 100
    THEN [linkDistance |-> 60, linkStrength |-> 10, chargeStrength |-> -300,
          distanceMin |-> 1, distanceMax |-> 300, collideRadius |-> 8]
    ELSE IF nodeCount < 500
    THEN [linkDistance |-> 50, linkStrength |-> 8, chargeStrength |-> -200,
          distanceMin |-> 10, distanceMax |-> 250, collideRadius |-> 6]
    ELSE [linkDistance |-> 40, linkStrength |-> 5, chargeStrength |-> -100,
          distanceMin |-> 30, distanceMax |-> 200, collideRadius |-> 5]

\* getOptimizedSimulationConfig; linkStrength is in hundredths (0.1 is 10)
getOptimizedSimulationConfig(nodeCount) ==
    IF nodeCount < 100
    THEN [linkDistance |-> 60, linkStrength |-> 10, chargeStrength |-> -300,
          distanceMin |-> 1, distanceMax |-> 300, collideRadius |-> 8]
    ELSE IF nodeCount < 500
    THEN [linkDistance |-> 50, linkStrength |-> 8, chargeStrength |-> -200,
          distanceMin |-> 10, distanceMax |-> 250, collideRadius |-> 6]
    ELSE IF nodeCount < 1000
    THEN [linkDistance |-> 40, linkStrength |-> 5, chargeStrength |-> -100,
          distanceMin |-> 30, distanceMax |-> 200, collideRadius |-> 5]
    ELSE [linkDistance |-> 30, linkStrength |-> 3, chargeStrength |-> -50,
          distanceMin |-> 50, distanceMax |-> 150, collideRadius |-> 4]

\* callArgs and callResult hold the node counts and the configurations of the
\* calls made so far
InitConfig ==
    /\ callPc = "config"
    /\ callArgs = <<>>
    /\ callResult = <<>>

\* render() asks for the configuration of nodes.length nodes; the method
\* reads and writes no field of the renderer
GetConfig ==
    /\ callPc = "config"
    /\ \E nodeCount \in ConfigCounts :
          /\ callArgs' = <<nodeCount>>
          /\ callResult' = <<getOptimizedSimulationConfig(nodeCount)>>
    /\ callPc' = "once"
    /\ UNCHANGED <<gvars, dvars, wvars, kvars, vvars>>

\* the next render() asks again, for the same or another node count
GetConfigAgain ==
    /\ callPc = "once"
    /\ \E nodeCount \in ConfigCounts :
          /\ callArgs' = Append(callArgs, nodeCount)
          /\ callResult' = Append(callResult, getOptimizedSimulationConfig(nodeCount))
    /\ callPc' = "twice"
    /\ UNCHANGED <<gvars, dvars, wvars, kvars, vvars>>

NextConfig == GetConfig \/ GetConfigAgain

InitConfigSpec == GraphUtilIdle /\ RendererIdle /\ WorkerIdle /\ ViewIdle /\ InitConfig

SpecConfig == InitConfigSpec /\ [][NextConfig]_vars

-----------------------------------------------------------------------------
(* CitationNetwork.vue: filters, local cache and backend requests *)

MaxRequests == 3    \* most requests sent to the backend in one behaviour

\* the filter fields that vary; the years and the limit keep their defaults
Universities == {"", "mit"}
MinCitations == {0, 1}
FilterParams == [university : Universities, min_citations : MinCitations]
DefaultFilters == [university |-> "", min_citations |-> 0]

\* getParamsHash: the JSON text of the normalized fields, as their tuple
getParamsHash(params) == <<params.university, params.min_citations>>

\* what the backend holds for a query, and the statistics of its response
NodesOf(hash) == [query |-> hash, part |-> "nodes"]
LinksOf(hash) == [query |-> hash, part |-> "links"]
StatsOf(hash) == [query |-> hash, part |-> "stats"]

\* an empty array, and null
EmptyArray == [query |-> <<>>, part |-> "empty"]
Null == [query |-> <<>>, part |-> "null"]

\* no cache items in localStorage
NoCache == [params |-> <<>>]
CacheOf(hash) == [params |-> hash, nodes |-> NodesOf(hash), links |-> LinksOf(hash)]

\* getCachedData(paramsHash): the cached data, or "null"; expired: the entry
\* is older than CACHE_DURATION
getCachedData(cache, paramsHash, expired) ==
    IF cache.params = paramsHash /\ ~expired THEN cache ELSE Null

\* the localStorage items after getCachedData: an expired entry is removed
CacheAfterRead(cache, paramsHash, expired) ==
    IF cache.params = paramsHash /\ expired THEN NoCache ELSE cache

\* the state after setup() and onMounted: loadFromCacheOnly shows the entry
\* an earlier session left for the default filters, if any
InitView ==
    /\ vwFilters = DefaultFilters
    /\ vwCache \in {NoCache} \cup {CacheOf(getParamsHash(q)) : q \in FilterParams}
    /\ LET cachedData == getCachedData(vwCache, getParamsHash(vwFilters), FALSE)
       IN  /\ vwNodes = IF cachedData = Null THEN EmptyArray ELSE cachedData.nodes
           /\ vwLinks = IF cachedData = Null THEN EmptyArray ELSE cachedData.links
    /\ vwStats = Null
    /\ vwLoading = FALSE
    /\ vwPending = {} /\ vwIssued = 0
    /\ vwOverlapped = FALSE
    /\ vwConsole = "none"

\* loadCitationNetwork(params, false) up to its return or its await
loadCitationNetwork(params, expired) ==
    LET paramsHash == getParamsHash(params)
        cachedData == getCachedData(vwCache, paramsHash, expired)
    IN  /\ vwCache' = CacheAfterRead(vwCache, paramsHash, expired)
        /\ vwOverlapped' = (vwOverlapped \/ vwPending # {})
        /\ vwConsole' = "none"
        /\ UNCHANGED vwStats
        /\ IF cachedData # Null
           THEN /\ vwNodes' = cachedData.nodes
                /\ vwLinks' = cachedData.links
                /\ vwLoading' = FALSE
                /\ UNCHANGED <<vwPending, vwIssued>>
           ELSE /\ vwIssued < MaxRequests
                /\ vwLoading' = TRUE
                /\ vwIssued' = vwIssued + 1
                /\ vwPending' = vwPending \cup {[seq |-> vwIssued + 1, hash |-> paramsHash]}
                /\ UNCHANGED <<vwNodes, vwLinks>>

\* the Search button (disabled while isLoading): handleFilterApply
HandleFilterApply(filterParams, expired) ==
    /\ ~vwLoading
    /\ vwFilters' = filterParams
    /\ loadCitationNetwork(filterParams, expired)
    /\ UNCHANGED <<gvars, dvars, wvars, kvars, cvars>>

\* the Reset button: handleFilterReset
HandleFilterReset(expired) ==
    /\ vwFilters' = DefaultFilters
    /\ loadCitationNetwork(DefaultFilters, expired)
    /\ UNCHANGED <<gvars, dvars, wvars, kvars, cvars>>

\* the rest of loadCitationNetwork once fetchCitationNetwork has answered
\* request seq; saved: localStorage.setItem did not throw
RequestOf(seq) == CHOOSE r \in vwPending : r.seq = seq

Respond(seq, outcome, saved) ==
    /\ \E r \in vwPending : r.seq = seq
    /\ vwPending' = vwPending \ {RequestOf(seq)}
    /\ vwLoading' = FALSE
    /\ IF outcome = "ok"
       THEN /\ vwNodes' = NodesOf(RequestOf(seq).hash)
            /\ vwLinks' = LinksOf(RequestOf(seq).hash)
            /\ vwStats' = StatsOf(RequestOf(seq).hash)
            /\ vwCache' = IF saved THEN CacheOf(RequestOf(seq).hash) ELSE vwCache
            /\ vwConsole' = IF saved THEN "none" ELSE "cache"
       ELSE /\ saved
            /\ vwNodes' = EmptyArray
            /\ vwLinks' = EmptyArray
            /\ vwConsole' = "load"
            /\ UNCHANGED <<vwStats, vwCache>>
    /\ UNCHANGED <<vwFilters, vwIssued, vwOverlapped>>
    /\ UNCHANGED <<gvars, dvars, wvars, kvars, cvars>>

ResponseOutcomes == {"ok", "failed"}

NextView ==
    \/ \E filterParams \in FilterParams, expired \in BOOLEAN :
          HandleFilterApply(filterParams, expired)
    \/ \E expired \in BOOLEAN : HandleFilterReset(expired)
    \/ \E seq \in 1..MaxRequests, outcome \in ResponseOutcomes, saved \in BOOLEAN :
          Respond(seq, outcome, saved)

InitViewSpec == GraphUtilIdle /\ RendererIdle /\ WorkerIdle /\ CallIdle /\ InitView

SpecView == InitViewSpec /\ [][NextView]_vars

-----------------------------------------------------------------------------
(* calculateDynamicThreshold, iteration by iteration *)

MaxDegreeEntries == 4    \* most entries of a degree map
MaxDegreeValue == 4      \* largest degree in a degree map

\* one iteration of the while loop on the loop variables st; tested collects
\* the values of mid
thresholdStep(entries, targetNodes, st) ==
    LET mid == (st.low + st.high) \div 2
        count == CountAtLeast(entries, mid)
        seen == [st EXCEPT !.tested = Append(st.tested, mid)]
    IN  IF InBand(count, targetNodes)
        THEN [seen EXCEPT !.bestThreshold = mid, !.done = TRUE]
        ELSE IF 10 * count > 12 * targetNodes
             THEN [seen EXCEPT !.low = mid + 1]
             ELSE [seen EXCEPT !.high = mid - 1, !.bestThreshold = mid]

\* at most fuel iterations of the loop; done: the loop has ended
RECURSIVE thresholdRun(_, _, _, _)
thresholdRun(entries, targetNodes, st, fuel) ==
    IF st.done \/ st.low > st.high THEN [st EXCEPT !.done = TRUE]
    ELSE IF fuel = 0 THEN st
         ELSE thresholdRun(entries, targetNodes,
                           thresholdStep(entries, targetNodes, st), fuel - 1)

\* calculateDynamicThreshold with its loop variables at the return
thresholdSearch(entries, targetNodes, minThreshold, fuel) ==
    IF Len(entries) <= targetNodes
    THEN [low |-> minThreshold, high |-> minThreshold, bestThreshold |-> minThreshold,
          tested |-> <<>>, done |-> TRUE]
    ELSE thresholdRun(entries, targetNodes,
                      [low |-> minThreshold, high |-> MaxDegree(entries),
                       bestThreshold |-> minThreshold, tested |-> <<>>, done |-> FALSE],
                      fuel)

\* iterations granted to a search over degrees up to d
SearchFuel(d) == d + 2

\* degree maps: the degrees of 1..MaxDegreeEntries nodes, in descending order
DegreeLists ==
    UNION {{ds \in [1..n -> 0..MaxDegreeValue] : \A i \in 1..(n - 1) : ds[i] >= ds[i + 1]} :
              n \in 1..MaxDegreeEntries}

EntriesOf(ds) == [i \in 1..Len(ds) |-> [id |-> LargeNodeOrder[i], degree |-> ds[i]]]

InitThreshold ==
    /\ callPc = "input"
    /\ callArgs \in {[fn |-> "calculateDynamicThreshold", entries |-> EntriesOf(ds),
                      targetNodes |-> t, minThreshold |-> m] :
                        ds \in DegreeLists, t \in 1..MaxDegreeEntries, m \in 1..MaxThreshold}
    /\ callResult = <<>>

\* optimizeGraphForPerformance calls calculateDynamicThreshold
SearchThreshold ==
    /\ callPc = "input"
    /\ callArgs.fn = "calculateDynamicThreshold"
    /\ callResult' =
          [value |-> calculateDynamicThreshold(callArgs.entries, callArgs.targetNodes,
                                               callArgs.minThreshold),
           search |-> thresholdSearch(callArgs.entries, callArgs.targetNodes,
                                      callArgs.minThreshold, SearchFuel(MaxDegreeValue))]
    /\ callPc' = "returned"
    /\ UNCHANGED callArgs
    /\ UNCHANGED <<gvars, dvars, wvars, kvars, vvars>>

NextThreshold == SearchThreshold

InitThresholdSpec == GraphUtilIdle /\ RendererIdle /\ WorkerIdle /\ ViewIdle /\ InitThreshold

SpecThreshold == InitThresholdSpec /\ [][NextThreshold]_vars

-----------------------------------------------------------------------------
(* The threshold and merge stages of optimizeGraphForPerformance, iteration
   by iteration *)

MaxMergeNodes == 4    \* most nodes of a graph given to the merge stage
MaxMergeLinks == 4    \* most links of a graph given to the merge stage

\* an iteration that finds a pair and removes nothing
mergeStepStuck(mnodes, links, st) ==
    LET bestPair == BestPair(mnodes, links, st.sortedNodes, st.result)
        scan == [kept |-> st.result, window |-> {},
                 removed |-> IF bestPair = <<>> THEN {} ELSE {bestPair}]
    IN  [st EXCEPT !.scans = Append(st.scans, scan), !.done = (bestPair = <<>>)]

\* one iteration of the while loop of mergeNodeCommunities on the loop
\* variables st; scans records, for each iteration, result before the scan,
\* the ids at the scanned positions of sortedNodes and the id deleted
mergeStep(mnodes, links, st) ==
    LET bestPair == BestPair(mnodes, links, st.sortedNodes, st.result)
        scan == [kept |-> st.result,
                 window |-> {st.sortedNodes[i].id :
                                i \in 1..Min2(Len(st.sortedNodes), MergeScanWidth)},
                 removed |-> IF bestPair = <<>> THEN {} ELSE {bestPair}]
    IN  IF bestPair # <<>>
        THEN [sortedNodes |-> Tail(st.sortedNodes), result |-> st.result \ {bestPair},
              scans |-> Append(st.scans, scan), done |-> FALSE]
        ELSE [st EXCEPT !.scans = Append(st.scans, scan), !.done = TRUE]

\* at most fuel iterations of the loop; done: the loop has ended
RECURSIVE mergeRun(_, _, _, _, _)
mergeRun(mnodes, links, targetCount, st, fuel) ==
    IF st.done \/ ~(Cardinality(st.result) > targetCount /\ Len(st.sortedNodes) > 0)
    THEN [st EXCEPT !.done = TRUE]
    ELSE IF fuel = 0 THEN st
         ELSE mergeRun(mnodes, links, targetCount, mergeStep(mnodes, links, st), fuel - 1)

\* mergeNodeCommunities with its loop variables at the return
mergeSearch(mnodes, links, targetCount, fuel) ==
    IF Len(mnodes) <= targetCount
    THEN [sortedNodes |-> <<>>, result |-> Range(IdsOf(mnodes)), scans |-> <<>>,
          done |-> TRUE]
    ELSE mergeRun(mnodes, links, targetCount,
                  [sortedNodes |-> SortByDegreeAsc(mnodes),
                   result |-> Range(IdsOf(mnodes)), scans |-> <<>>, done |-> FALSE],
                  fuel)

\* Array.from(filteredNodeIds).map(id => ({ id, degree: degrees[id] }))
RECURSIVE MergeInput(_, _)
MergeInput(ids, degreeEntries) ==
    IF ids = <<>> THEN <<>>
    ELSE <<[id |-> Head(ids), degree |-> DegreeOf(degreeEntries, Head(ids))]>>
         \o MergeInput(Tail(ids), degreeEntries)

NoMerge == [sortedNodes |-> <<>>, result |-> {}, scans |-> <<>>, done |-> TRUE]

MergeNodeLists == {SubSeq(NodeOrder, 1, k) : k \in 2..MaxMergeNodes}

MergeLinkLists(nodes) ==
    LET pool == PoolOf(nodes)
    IN  {PickFrom(pool, picks, 1) :
            picks \in {ps \in SUBSET (1..Len(pool)) : Cardinality(ps) <= MaxMergeLinks}}

\* graphs that optimizeGraphForPerformance reduces: more nodes than maxNodes
InitStages ==
    /\ callPc = "input"
    /\ \E nodes \in MergeNodeLists :
         callArgs \in {[fn |-> "optimizeGraphForPerformance", nodes |-> nodes,
                        links |-> links, options |-> o] :
                          links \in MergeLinkLists(nodes),
                          o \in {op \in Options : op.maxNodes < Len(nodes)
                                                  /\ op.preserveTopPercent = 10}}
    /\ callResult = <<>>

\* lines 130-168 of optimizeGraphForPerformance: the degree map, the
\* threshold search, the keep-set of the first two stages and the merge stage
RunStages ==
    /\ callPc = "input"
    /\ callArgs.fn = "optimizeGraphForPerformance"
    /\ \E loc \in {ReductionLocals(callArgs.nodes, callArgs.links, callArgs.options)} :
       \E mnodes \in {MergeInput(loc.unionIds, loc.degrees)} :
          LET o == callArgs.options
          IN  callResult' =
                 [search |-> thresholdSearch(loc.sortedByDegree, o.maxNodes, o.threshold,
                                             SearchFuel(MaxDegree(loc.sortedByDegree))),
                  mnodes |-> mnodes,
                  mergeRuns |-> loc.mergeRuns,
                  merge |-> IF loc.mergeRuns
                            THEN mergeSearch(mnodes, callArgs.links,
                                             CeilDiv(7 * o.maxNodes, 10), Len(mnodes))
                            ELSE NoMerge,
                  filteredNodeIds |-> loc.mergedIds]
    /\ callPc' = "returned"
    /\ UNCHANGED callArgs
    /\ UNCHANGED <<gvars, dvars, wvars, kvars, vvars>>

NextStages == RunStages

InitStagesSpec == GraphUtilIdle /\ RendererIdle /\ WorkerIdle /\ ViewIdle /\ InitStages

SpecStages == InitStagesSpec /\ [][NextStages]_vars

-----------------------------------------------------------------------------
(* Claims about the graph utilities *)

Returned == pc = "optimized"
Reduced == Returned /\ ~WithinBudget(Len(inNodes), optArgs.maxNodes)
NodeIdsOf(r) == Range(r.nodes)

\* C1: when |nodes| <= maxNodes, optimizeGraphForPerformance returns the input
\* nodes and the input links unchanged, filteredCount 0 and level 'none'.
C1_NoOpReturnsInput ==
    (Returned /\ Len(inNodes) <= optArgs.maxNodes) =>
        /\ result.nodes = inNodes
        /\ result.links = inLinks
        /\ result.filteredCount = 0
        /\ result.optimizationLevel = "none"

\* C1 witness: a call with maxNodes = |nodes| on a graph with nodes and links
C1_Witness ==
    /\ Returned
    /\ Len(inNodes) = optArgs.maxNodes
    /\ Len(inNodes) >= 2 /\ Len(inLinks) >= 1
    /\ result.optimizationLevel = "none"

\* C2: every link of a returned result has its source and its target among
\* the ids of the returned nodes, on the no-op path and on the reducing path.
C2_EdgeEndpointsInResult ==
    Returned =>
        \A i \in 1..Len(result.links) :
            /\ result.links[i].source \in NodeIdsOf(result)
            /\ result.links[i].target \in NodeIdsOf(result)

NoDuplicateIds(nodes) ==
    \A i, j \in 1..Len(nodes) : i # j => nodes[i] # nodes[j]

NoSelfLoop(links) == \A i \in 1..Len(links) : links[i].source # links[i].target

NoDuplicatePair(links) ==
    \A i, j \in 1..Len(links) :
        i # j => {links[i].source, links[i].target} # {links[j].source, links[j].target}

ScenarioBLinks == <<Link(IdA, IdA), Link(IdA, IdC), Link(IdA, IdC)>>

\* C3: the output of cleanNodes has no two nodes with the same id; the output
\* of cleanLinks has no self-loop and no two links with the same unordered
\* endpoint pair; a self-loop A-A plus A-B given twice yields exactly A-B.
C3_SanitizedIsClean ==
    (pc \in {"cleaned", "degrees"}) =>
        /\ NoDuplicateIds(outNodes)
        /\ NoSelfLoop(outLinks)
        /\ NoDuplicatePair(outLinks)
        /\ (inLinks = ScenarioBLinks => outLinks = <<Link(IdA, IdC)>>)

\* C3 witness: the sanitizer has run on a duplicated node and on the links
\* A-A, A-B, A-B
C3_Witness ==
    /\ pc = "cleaned"
    /\ inLinks = ScenarioBLinks
    /\ Len(inNodes) = 2 /\ inNodes[1] = inNodes[2]
    /\ Len(outNodes) = 1 /\ Len(outLinks) = 1

\* C4: after sanitization every degree is a non-negative integer and the
\* degrees sum to 2 * |sanitized links|.
C4_DegreeSum ==
    pc = "degrees" =>
        /\ \A i \in 1..Len(degrees) : degrees[i].degree \in Nat
        /\ SumDegrees(degrees) = 2 * Len(outLinks)

\* C5: whenever the sampling stage runs, the returned node list has exactly
\* maxNodes nodes, for every outcome of the random draws.
C5_SamplingHitsTarget ==
    (Reduced /\ locals.samplingRuns) => Len(result.nodes) = optArgs.maxNodes

\* C6: on every reducing call each of the topNodeCount highest-degree nodes
\* is among the returned nodes.
C6_HubsReturned ==
    Reduced => Range(locals.topDegreeNodeIds) \subseteq NodeIdsOf(result)

-----------------------------------------------------------------------------
(* Claims about the renderers *)

LinkKeysOf(links) == {D3LinkKey(links[i]) : i \in 1..Len(links)}

\* the last public call was render() on an initialized renderer, every
\* animation-frame callback has run and no exception was raised
D3Settled ==
    /\ d3LastCall = "render"
    /\ d3Raf = <<>>
    /\ d3Layers = "attached"
    /\ ~d3Error

\* C7: after render(nodes, links) and after every animation-frame callback it
\* scheduled has run, the drawn circles are exactly the ids of nodes and the
\* drawn lines exactly the links passed, for every node count, renders split
\* into several chunks included
C7_DrawnMatchesData ==
    D3Settled =>
        /\ DOMAIN d3Circles = Range(d3Nodes)
        /\ DOMAIN d3Lines = LinkKeysOf(d3Links)

\* C8: when a step of the set-up of initialize() has failed, a later render()
\* draws through the canvas fallback; when the canvas has no context either,
\* render() draws nothing and reports an error
C8_FallbackAfterSetupFailure ==
    (glLastCall = "render" /\ glSetup = "failed") =>
        IF glCanvas = "ctx"
        THEN glDrawnBy = "canvas"
        ELSE glDrawnBy = "none" /\ glErrorReported

\* C9: click(n) makes n the selected node, clickBackground clears the
\* selection, and while a node is selected hoverEnter(m) changes neither the
\* highlight sets nor the stroke of the selected node
C9_SelectionPrecedence ==
    [][ /\ \A n \in ProbeIds : D3Click(n) => d3SelectedNode' = n
        /\ D3ClickBackground => d3SelectedNode' = NoNode
        /\ \A m \in ProbeIds :
              (d3SelectedNode \in DOMAIN d3Circles /\ D3HoverEnter(m)) =>
                  /\ d3HighlightedNodes' = d3HighlightedNodes
                  /\ d3HighlightedLinks' = d3HighlightedLinks
                  /\ d3Circles'[d3SelectedNode].stroke = d3Circles[d3SelectedNode].stroke
                  /\ d3Circles'[d3SelectedNode].strokeWidth10
                         = d3Circles[d3SelectedNode].strokeWidth10 ]_vars

\* C10: after any sequence of render(), click and hover operations the
\* selected node and the highlighted node and edge sets are empty or refer
\* only to nodes and edges of the arrays rendered last
C10_InteractionRefersToData ==
    /\ d3SelectedNode # NoNode => d3SelectedNode \in Range(d3Nodes)
    /\ d3HighlightedNodes \subseteq Range(d3Nodes)
    /\ d3HighlightedLinks \subseteq LinkKeysOf(d3Links)

-----------------------------------------------------------------------------
(* Claims about the worker and the pure functions *)

\* C11: for every request {type, payload} the handler posts exactly one
\* response of the same type, success: true exactly when the type is a task
\* and the task completed, success: false when the type is unknown or the
\* task threw, and no exception leaves the handler
C11_OneResponsePerRequest ==
    (wkPc = "handled" /\ wkMsg \in Messages) =>
        /\ ~wkEscaped
        /\ Len(wkPosted) = 1
        /\ wkPosted[1].type = wkMsg.type
        /\ wkPosted[1].success <=> (wkMsg.type \in TaskTypes /\ wkOutcome = "completed")
        /\ wkMsg.type \notin TaskTypes => wkOutcome = "unknown"

C11_Witness ==
    /\ wkPc = "handled"
    /\ wkMsg \in Messages
    /\ wkMsg.type = "cleanData"
    /\ wkOutcome = "threw"
    /\ wkMsg.payload.present /\ wkMsg.payload.nodes.isArray
    /\ ~wkPosted[1].success

\* C12: validateNetworkData never throws: for every input, nodes or links
\* that are no arrays included, it returns {isValid, issues} with isValid true
\* exactly when issues is empty
C12_ValidateNeverThrows ==
    (callPc = "returned" /\ callArgs.fn = "validateNetworkData") =>
        /\ ~callResult.threw
        /\ callResult.value.isValid <=> (callResult.value.issues = <<>>)

\* the fields of the renderers, without the record of the last call
D3Fields == <<d3Options, d3Layers, d3Nodes, d3Links, d3Simulation, d3Circles, d3Lines,
              d3Raf, d3SelectedNode, d3HighlightedNodes, d3HighlightedLinks, d3Pointer,
              d3Error>>

GlFields == <<glGraph, glSetup, glHandlers, glCanvas, glNodes, glLinks, glScene,
              glSelectedNode, glHoveredNode, glIsPaused, glDrawnBy>>

RoundedPercent(removed, total) == (200 * removed + total) \div (2 * total)

\* C14: in every result of a reducing call, removedCount = |input nodes| -
\* |returned nodes|, compressionRate = round(100 * removedCount / |input
\* nodes|), and the level is a function of the returned compressionRate:
\* heavy iff it is above 80, moderate iff above 50 and at most 80, else light
C14_LevelFollowsRate ==
    Reduced =>
        /\ result.filteredCount = Len(inNodes) - Len(result.nodes)
        /\ result.compressionRate = RoundedPercent(result.filteredCount, Len(inNodes))
        /\ result.optimizationLevel =
              IF result.compressionRate > 80 THEN "heavy"
              ELSE IF result.compressionRate > 50 THEN "moderate"
              ELSE "light"

\* the unordered pair of endpoints of a link
EndpointPair(link) == {link.source, link.target}

\* the links that are no self-loops and the first of their unordered pair
FirstOfEachPair(links) ==
    LET keep == {i \in 1..Len(links) :
                    /\ links[i].source # links[i].target
                    /\ \A j \in 1..(i - 1) : EndpointPair(links[j]) # EndpointPair(links[i])}
    IN  PickFrom(links, keep, 1)

\* the first node of each id
FirstOfEachId(nodes) ==
    PickFrom(nodes, {i \in 1..Len(nodes) : \A j \in 1..(i - 1) : nodes[j] # nodes[i]}, 1)

\* C15: cleanLinks returns, in input order, exactly the links that are no
\* self-loops and are the first of their unordered endpoint pair, for all
\* string ids, ids containing '-' included; cleanNodes keeps exactly the
\* first node of each id
C15_ExactDeduplication ==
    pc \in {"cleaned", "degrees"} =>
        /\ outLinks = FirstOfEachPair(inLinks)
        /\ outNodes = FirstOfEachId(inNodes)

\* s is t with some members left out
RECURSIVE IsSubsequence(_, _)
IsSubsequence(s, t) ==
    IF s = <<>> THEN TRUE
    ELSE IF t = <<>> THEN FALSE
    ELSE IF Head(s) = Head(t) THEN IsSubsequence(Tail(s), Tail(t))
    ELSE IsSubsequence(s, Tail(t))

\* C16: for every input and option set the returned node list is a
\* sub-sequence of the input node list (no new or duplicated node, input
\* order kept), so it is no longer than the input
C16_ReturnedIsSubsequence ==
    Returned =>
        /\ IsSubsequence(result.nodes, inNodes)
        /\ Len(result.nodes) <= Len(inNodes)

C16_Witness ==
    /\ Reduced
    /\ Len(result.nodes) >= 2
    /\ result.nodes # SubSeq(inNodes, 1, Len(result.nodes))
    /\ IdsOf(locals.sortedByDegree) # inNodes

\* the input has the degrees of the scenario
HasScenarioDegrees ==
    /\ inNodes = ScenarioNodes
    /\ \A k \in 1..Len(inNodes) :
          DegreeOf(locals.degrees, inNodes[k]) = ScenarioDegrees[k]

\* C17: for the ten-node input with degrees [5,4,3,3,2,2,1,1,1,1] and
\* maxNodes = 6 the reduction keeps exactly the six nodes of degree >= 2, and
\* neither the merge stage nor the sampling stage changes the keep-set
C17_ScenarioKeepsTopSix ==
    (Returned /\ HasScenarioDegrees /\ optArgs.maxNodes = ScenarioBudget) =>
        /\ result.nodes = SubSeq(inNodes, 1, 6)
        /\ Range(locals.mergedIds) = Range(locals.unionIds)
        /\ ~locals.samplingRuns

Abs(x) == IF x < 0 THEN -x ELSE x

TwoConfigCalls == callPc = "twice"

\* C18: getOptimizedSimulationConfig is a pure function of nodeCount (equal
\* counts give equal configurations), its linkDistance, linkStrength,
\* collideRadius and |chargeStrength| do not increase as nodeCount grows, and
\* the configuration for 1500 nodes differs from the one for every count in
\* [500, 1000)
C18_ConfigMonotoneAndBanded ==
    TwoConfigCalls =>
        LET m == callArgs[1]
            n == callArgs[2]
            cm == callResult[1]
            cn == callResult[2]
        IN  /\ (m = n) => (cm = cn)
            /\ (m <= n) =>
                  /\ cn.linkDistance <= cm.linkDistance
                  /\ cn.linkStrength <= cm.linkStrength
                  /\ cn.collideRadius <= cm.collideRadius
                  /\ Abs(cn.chargeStrength) <= Abs(cm.chargeStrength)
            /\ (m = 1500 /\ n \in 500..999) => (cm # cn)

C18_Witness ==
    /\ TwoConfigCalls
    /\ callArgs = <<1500, 999>>
    /\ callResult[1].linkDistance < callResult[2].linkDistance

\* C19: with listeners registered through on(eventName, callback), a click
\* on a node calls the nodeClick listener with that node, the pointer
\* entering a node calls the nodeHover listener, and the pointer leaving a
\* node calls the nodeUnhover listener
C19_ListenersAreInvoked ==
    /\ (glLastEvent.kind = "click" /\ "nodeClick" \in glLastEvent.listeners) =>
          [listener |-> "nodeClick", node |-> glLastEvent.node] \in glInvoked
    /\ (glLastEvent.kind = "hover" /\ glLastEvent.node # NoNode
            /\ "nodeHover" \in glLastEvent.listeners) =>
          \E c \in glInvoked : c.listener = "nodeHover"
    /\ (glLastEvent.kind = "hover" /\ glLastEvent.previous # NoNode
            /\ "nodeUnhover" \in glLastEvent.listeners) =>
          \E c \in glInvoked : c.listener = "nodeUnhover"

ReturnedTwice ==
    /\ Returned /\ callPc = "returned"
    /\ callArgs.fn = "optimizeGraphForPerformance"

\* the keep-set of the threshold and hub stages fits the budget and the
\* merge stage is disabled
ThresholdStageOnly ==
    /\ Reduced
    /\ ~optArgs.enableCommunityMerge
    /\ Len(locals.unionIds) <= optArgs.maxNodes

\* C20: with enableCommunityMerge = false and a keep-set of the threshold and
\* hub stages of at most maxNodes ids, two calls with the same arguments
\* return the same set of nodes and the same set of links
C20_TwoCallsAgree ==
    (ReturnedTwice /\ ThresholdStageOnly) =>
        /\ Range(callResult.nodes) = Range(result.nodes)
        /\ Range(callResult.links) = Range(result.links)

C20_Witness ==
    /\ ReturnedTwice /\ ThresholdStageOnly
    /\ Len(result.nodes) < Len(inNodes)
    /\ result.links # <<>>
    /\ callResult.nodes = result.nodes

-----------------------------------------------------------------------------
(* Claims about the citation view *)

ShowsData == vwNodes # EmptyArray

\* C21: when two loadCitationNetwork calls overlap, then in every arrival
\* order of the responses, once all calls have completed the displayed
\* nodes and links and the stored cache entry belong to the filters applied
\* last
C21_LatestFiltersWin ==
    (vwOverlapped /\ vwPending = {} /\ ShowsData /\ vwConsole = "none") =>
        /\ vwNodes = NodesOf(getParamsHash(vwFilters))
        /\ vwLinks = LinksOf(getParamsHash(vwFilters))
        /\ vwCache.params \in {NoCache.params, getParamsHash(vwFilters)}

\* C30: after every completed loadCitationNetwork call, served from the
\* cache or from the backend, citationStats is null or describes the query
\* of the displayed nodes and links
C30_StatsMatchNetwork ==
    (ShowsData /\ vwStats # Null) => vwStats = StatsOf(vwNodes.query)

-----------------------------------------------------------------------------
(* Claims about the renderers and the reduction stages *)

\* C22: in every state of the WebGL renderer reached by initialize, render
\* and clear, a render() of a non-empty graph draws that graph; so a
\* render() after clear() shows the newly loaded data
C22_RenderAfterClearDraws ==
    (/\ glLastCall = "render"
     /\ glSetup = "complete"
     /\ ~glErrorReported
     /\ glNodes # <<>>) =>
        /\ glDrawnBy = "gpu"
        /\ glScene = Range(glNodes)

\* the threshold search has returned for a degree map of more than
\* targetNodes entries
Searched ==
    /\ callPc = "returned"
    /\ callArgs.fn = "calculateDynamicThreshold"
    /\ Len(callArgs.entries) > callArgs.targetNodes

CountFor(t) == CountAtLeast(callArgs.entries, t)
TestedThresholds == Range(callResult.search.tested)
SearchBounds == callArgs.minThreshold .. MaxDegree(callArgs.entries)

\* C23: for a degree map with more than maxNodes entries, if some integer T
\* in [minDegreeFloor, maxObservedDegree] has its count inside the band then
\* calculateDynamicThreshold returns such a T; and the value returned is
\* minDegreeFloor or a tested threshold inside the search bounds
C23_ThresholdFindsBand ==
    Searched =>
        /\ (\E t \in SearchBounds : InBand(CountFor(t), callArgs.targetNodes)) =>
              /\ callResult.value \in SearchBounds
              /\ InBand(CountFor(callResult.value), callArgs.targetNodes)
        /\ \/ callResult.value = callArgs.minThreshold
           \/ callResult.value \in TestedThresholds \cap SearchBounds

C23_Witness ==
    /\ Searched
    /\ Len(callResult.search.tested) >= 2
    /\ callResult.value # callArgs.minThreshold
    /\ InBand(CountFor(callResult.value), callArgs.targetNodes)
    /\ ~InBand(CountFor(callResult.search.tested[1]), callArgs.targetNodes)

\* distance of a count from the band, in tenths
BandDistance(count, targetNodes) ==
    IF 10 * count < 6 * targetNodes THEN 6 * targetNodes - 10 * count
    ELSE IF 10 * count > 12 * targetNodes THEN 10 * count - 12 * targetNodes
    ELSE 0

\* C26: when no threshold tested by calculateDynamicThreshold has its count
\* inside the band, the function returns one of the tested thresholds, one
\* whose count is closest to the band
C26_ClosestTestedThreshold ==
    (/\ Searched
     /\ TestedThresholds # {}
     /\ \A t \in TestedThresholds : ~InBand(CountFor(t), callArgs.targetNodes)) =>
        /\ callResult.value \in TestedThresholds
        /\ \A t \in TestedThresholds :
              BandDistance(CountFor(callResult.value), callArgs.targetNodes)
                  <= BandDistance(CountFor(t), callArgs.targetNodes)

\* the first three stages have run on a graph
StagesRan == callPc = "returned" /\ callArgs.fn = "optimizeGraphForPerformance"

MergeTarget == CeilDiv(7 * callArgs.options.maxNodes, 10)
MergeScans == callResult.merge.scans
MergeDegree(id) == DegreeOf(callResult.mnodes, id)

\* still-kept neighbours of id, at the scan sc, whose degree is at most two
\* above the degree of id
MergePartners(sc, id) ==
    {b \in sc.kept \cap Adjacency(callResult.mnodes, callArgs.links, id) :
        MergeDegree(b) <= MergeDegree(id) + 2}

\* C24: the merge stage runs only if enableCommunityMerge is set and the
\* keep-set has more than 0.8 * maxNodes ids; its result is a subset of its
\* input; every scan that removes removes exactly one node; the result never
\* falls below ceil(0.7 * maxNodes) ids; and every removed node had, when it
\* was removed, a still-kept neighbour of degree at most its own plus two
C24_MergeIsGuardedAndBounded ==
    StagesRan =>
        /\ callResult.mergeRuns =>
              /\ callArgs.options.enableCommunityMerge
              /\ 10 * Len(callResult.mnodes) > 8 * callArgs.options.maxNodes
        /\ ~callResult.mergeRuns => callResult.filteredNodeIds = IdsOf(callResult.mnodes)
        /\ Range(callResult.filteredNodeIds) \subseteq Range(IdsOf(callResult.mnodes))
        /\ callResult.mergeRuns =>
              /\ Range(callResult.filteredNodeIds) = callResult.merge.result
              /\ Len(callResult.filteredNodeIds)
                    >= Min2(Len(callResult.mnodes), MergeTarget)
              /\ Len(callResult.mnodes) - Len(callResult.filteredNodeIds)
                    = Cardinality({i \in 1..Len(MergeScans) : MergeScans[i].removed # {}})
              /\ \A i \in 1..Len(MergeScans) :
                    /\ Cardinality(MergeScans[i].removed) <= 1
                    /\ MergeScans[i].removed \subseteq MergeScans[i].kept
                    /\ MergeScans[i].removed = {} => i = Len(MergeScans)
                    /\ \A r \in MergeScans[i].removed : MergePartners(MergeScans[i], r) # {}

C24_Witness ==
    /\ StagesRan
    /\ callResult.mergeRuns
    /\ Len(MergeScans) >= 2
    /\ MergeScans[1].removed # {} /\ MergeScans[2].removed # {}
    /\ Len(callResult.filteredNodeIds) = MergeTarget

\* the candidates a scan examines: the ids at the scanned positions that are
\* still kept
Examined(sc) == sc.window \cap sc.kept

\* ids is a set of the n lowest-degree members of kept
LowestDegree(ids, kept, n) ==
    /\ ids \subseteq kept
    /\ Cardinality(ids) = n
    /\ \A a \in ids : \A b \in kept \ ids : MergeDegree(a) <= MergeDegree(b)

\* C25: in every iteration of the merge loop the candidates examined are
\* exactly the (up to 10) lowest-degree still-kept nodes, and the loop stops
\* without a removal only when none of them has a still-kept neighbour of
\* degree at most its own plus two
C25_ScansLowestDegreeKept ==
    (StagesRan /\ callResult.mergeRuns) =>
        \A i \in 1..Len(MergeScans) :
           /\ LowestDegree(Examined(MergeScans[i]), MergeScans[i].kept,
                           Min2(Cardinality(MergeScans[i].kept), MergeScanWidth))
           /\ MergeScans[i].removed = {} =>
                 \A a \in Examined(MergeScans[i]) : MergePartners(MergeScans[i], a) = {}

\* C27: optimizeGraphForPerformance terminates: the threshold loop ends
\* within as many iterations as there are integers between minDegreeFloor and
\* the largest degree, and the merge loop within as many iterations as the
\* keep-set has ids, for graphs without links, with equal degrees or with
\* minDegreeFloor above the largest degree as well
C27_StagesTerminate ==
    StagesRan =>
        /\ callResult.search.done
        /\ Len(callResult.search.tested)
              <= Max2(0, MaxDegree(callResult.mnodes) - callArgs.options.threshold + 1)
        /\ callResult.merge.done
        /\ Len(MergeScans) <= Len(callResult.mnodes)

C27_Witness ==
    /\ StagesRan
    /\ callArgs.links = <<>>
    /\ callArgs.options.threshold > MaxDegree(callResult.mnodes)
    /\ callResult.mergeRuns
    /\ Len(MergeScans) = 1 /\ MergeScans[1].removed = {}
    /\ callResult.search.tested = <<>>

\* the constructor's defaults for batching (enableBatching true, batchSize 500)
DefaultBatching == [enableBatching |-> TRUE, batchSize |-> DefaultBatchSize]

\* render() has run on the attached layers and every queued callback has run
D3Drawn ==
    /\ d3Layers = "attached"
    /\ d3LastCall = "render"
    /\ d3Raf = <<>>
    /\ ~d3Error

\* C28: D3NetworkRenderer.render under the default options: with more than
\* 500 nodes every drawn node has the reduced radius max(0.7 * r, 2) and no
\* hover and drag handlers; with at most 500 nodes every drawn node has the
\* full radius r and the hover and drag handlers
C28_LargeGraphsAreCheapened ==
    (D3Drawn /\ d3Options = DefaultBatching) =>
        \A id \in DOMAIN d3Circles :
           IF Len(d3Nodes) > LargeGraphThreshold
           THEN d3Circles[id].r10 = NodeRadius10(TRUE) /\ ~d3Circles[id].hover
           ELSE d3Circles[id].r10 = NodeRadius10(FALSE) /\ d3Circles[id].hover

\* C29: hoverEnter(n) followed by hoverLeave is a round trip on the styling.
\* unhighlightNode empties both sets and gives every circle and line the
\* styling of applyHighlight with empty sets, so the round trip holds exactly
\* when the styling before the hover is already that styling
C29_HoverRoundTrip ==
    [][(/\ d3Pointer = NoNode
        /\ d3Pointer' # NoNode
        /\ d3Pointer' \in DOMAIN d3Circles
        /\ d3Circles[d3Pointer'].hover) =>
           /\ d3HighlightedNodes = {} /\ d3HighlightedLinks = {}
           /\ d3Circles = applyHighlightNodes(d3Circles, {})
           /\ d3Lines = applyHighlightLinks(d3Lines, {})]_vars

=============================================================================
